---- MODULE Spec2Model ----
(***************************************************************************)
(* A model of dynamap: the label codec, the marshaling engine, the table   *)
(* request builders and the pagination cursor store.                       *)
(*                                                                         *)
(* Strings are sequences of symbols.  A symbol is a delimiter-free chunk   *)
(* of text ("order", "O1") or one delimiter ("#", "/", "|"); string        *)
(* concatenation is \o and strings.Split walks the symbols.  The empty     *)
(* string is << >>.  Times are naturals, 0 being the zero time.Time.       *)
(***************************************************************************)
EXTENDS Naturals, Integers, Sequences, FiniteSets

VARIABLES
    table,      \* the Table configuration in use
    store,      \* the DynamoDB table: primary key <<hk, sk>> -> item
    now,        \* the system clock
    issued,     \* cursor ids handed out by generateCursor so far
    tokenOf,    \* cursor id -> the last key given to the PageCursor call that issued it
    call,       \* the last operation called, with its inputs
    ret         \* what that operation returned

vars == <<table, store, now, issued, tokenOf, call, ret>>

(***************************************************************************)
(* Bounds of the model.                                                    *)
(***************************************************************************)
MaxTime == 3
MaxRefs == 2
MaxBigRefs == 51
MaxLabelLen == 5
MaxFailRefs == 3
MaxSeedTime == 2
MaxSeedBatches == 3

(***************************************************************************)
(* Program constants.                                                      *)
(***************************************************************************)
MaxBatchSize == 25
\* 24 * time.Hour, the unit of time of the model being 12 hours.
Hours24 == 2

EmptyStr == << >>
NoErr == "nil"

(***************************************************************************)
(* strings.Split(s, sep) for a one-symbol separator: the segments between  *)
(* the occurrences of sep, count(sep) + 1 of them.                         *)
(***************************************************************************)
RECURSIVE SplitFrom(_, _, _)
SplitFrom(s, sep, cur) ==
    IF s = << >> THEN <<cur>>
    ELSE IF Head(s) = sep
         THEN <<cur>> \o SplitFrom(Tail(s), sep, << >>)
         ELSE SplitFrom(Tail(s), sep, Append(cur, Head(s)))

Split(s, sep) == SplitFrom(s, sep, << >>)

Contains(s, sym) == \E i \in 1..Len(s) : s[i] = sym

(***************************************************************************)
(* MarshalOptions and the label codec.                                     *)
(***************************************************************************)
sourceKey(mo) == mo.SourcePrefix \o mo.KeyDelimiter \o mo.SourceID

targetKey(mo) == mo.TargetPrefix \o mo.KeyDelimiter \o mo.TargetID

RefLabelNoName(mo, name) == mo.SourcePrefix \o mo.LabelDelimiter \o mo.SourceID

refLabel(mo, name) ==
    mo.SourcePrefix \o mo.LabelDelimiter \o mo.SourceID \o mo.LabelDelimiter \o name

SplitLabelAnyLength(mo, label) ==
    LET parts == Split(label, Head(mo.LabelDelimiter))
        at(i) == IF i <= Len(parts) THEN parts[i] ELSE EmptyStr
    IN  IF Len(parts) = 1
        THEN [prefix |-> parts[1], id |-> EmptyStr, name |-> EmptyStr, err |-> NoErr]
        ELSE [prefix |-> at(1), id |-> at(2), name |-> at(3), err |-> NoErr]

splitLabel(mo, label) ==
    LET parts == Split(label, Head(mo.LabelDelimiter))
    IN  IF Len(parts) = 1
        THEN [prefix |-> parts[1], id |-> EmptyStr, name |-> EmptyStr, err |-> NoErr]
        ELSE IF Len(parts) # 3
        THEN [prefix |-> EmptyStr, id |-> EmptyStr, name |-> EmptyStr,
              err |-> "invalid label length; should be 1 or 3"]
        ELSE [prefix |-> parts[1], id |-> parts[2], name |-> parts[3], err |-> NoErr]

(***************************************************************************)
(* Decimal text of a natural number, as fmt and time.Format produce it.    *)
(***************************************************************************)
DigitSyms == <<"0", "1", "2", "3", "4", "5", "6", "7", "8", "9">>

RECURSIVE Decimal(_)
Decimal(n) ==
    IF n < 10 THEN <<DigitSyms[n + 1]>>
    ELSE Decimal(n \div 10) \o <<DigitSyms[(n % 10) + 1]>>

(***************************************************************************)
(* An option function over MarshalOptions is a record of the fields it    *)
(* assigns; applying one overwrites those fields.                          *)
(***************************************************************************)
SystemClock == [kind |-> "DefaultClock", at |-> 0]
FixedClock(t) == [kind |-> "fixed", at |-> t]

Tick(mo, clock) == IF mo.Tick.kind = "DefaultClock" THEN clock ELSE mo.Tick.at

applyOne(mo, opt) == [f \in DOMAIN mo |-> IF f \in DOMAIN opt THEN opt[f] ELSE mo[f]]

RECURSIVE apply(_, _)
apply(mo, opts) ==
    IF opts = << >> THEN mo ELSE apply(applyOne(mo, Head(opts)), Tail(opts))

ZeroOptions ==
    [SourceID |-> EmptyStr, SourcePrefix |-> EmptyStr,
     TargetID |-> EmptyStr, TargetPrefix |-> EmptyStr,
     TimeToLive |-> 0, Label |-> EmptyStr, Created |-> 0, Updated |-> 0,
     RefSortKey |-> EmptyStr, Tick |-> SystemClock,
     KeyDelimiter |-> EmptyStr, LabelDelimiter |-> EmptyStr, SkipRefs |-> FALSE]

newMarshalOptions(opts, clock) ==
    LET options == [ZeroOptions EXCEPT !.Tick = SystemClock,
                                       !.KeyDelimiter = <<"#">>,
                                       !.LabelDelimiter = <<"/">>]
        stamped == [options EXCEPT !.Created = Tick(options, clock),
                                   !.Updated = Tick(options, clock)]
    IN  apply(stamped, opts)

WithSelfTarget(mo, label, id) ==
    [mo EXCEPT !.SourceID = id, !.TargetID = id,
               !.SourcePrefix = label, !.TargetPrefix = label, !.Label = label]

(***************************************************************************)
(* Relationship records.                                                   *)
(***************************************************************************)
NoData == [kind |-> "nil"]

\* NewRelationship computing the expiry whatever the sign of TimeToLive.
NewRelationshipAlwaysExpires(data, opts0, clock) ==
    LET o1 == IF opts0.Created = 0 THEN [opts0 EXCEPT !.Created = Tick(opts0, clock)] ELSE opts0
        opts == IF o1.Updated = 0 THEN [o1 EXCEPT !.Updated = Tick(o1, clock)] ELSE o1
    IN  [Source |-> sourceKey(opts), Target |-> targetKey(opts), Label |-> opts.Label,
         CreatedAt |-> opts.Created, UpdatedAt |-> opts.Updated,
         Expires |-> opts.Created + opts.TimeToLive,
         Data |-> data, GSI1SK |-> opts.RefSortKey]

NewRelationship(data, opts0, clock) ==
    LET o1 == IF opts0.Created = 0 THEN [opts0 EXCEPT !.Created = Tick(opts0, clock)] ELSE opts0
        opts == IF o1.Updated = 0 THEN [o1 EXCEPT !.Updated = Tick(o1, clock)] ELSE o1
    IN  [Source |-> sourceKey(opts), Target |-> targetKey(opts), Label |-> opts.Label,
         CreatedAt |-> opts.Created, UpdatedAt |-> opts.Updated,
         Expires |-> IF opts.TimeToLive > 0 THEN opts.Created + opts.TimeToLive ELSE 0,
         Data |-> data, GSI1SK |-> opts.RefSortKey]

(***************************************************************************)
(* The entities: the Order and Product of the package's tests and the      *)
(* PageCursor.  An entity is a record; its kind selects its methods.       *)
(***************************************************************************)
Product(id, category) == [kind |-> "product", ID |-> id, Category |-> category]

Order(id, refs) ==
    [kind |-> "order", ID |-> id, PurchasedBy |-> <<"john">>,
     Refs |-> refs, Created |-> 0, Updated |-> 0]

NewPageCursor(cursor, key) == [kind |-> "page", Cursor |-> cursor, Key |-> key]

\* errorEntity of the package's tests: its MarshalSelf fails.
ErrorEntity == [kind |-> "error"]

\* A caller's RefMarshaler whose MarshalSelf clears SkipRefs.
EagerOrder(id, refs) ==
    [kind |-> "eager", ID |-> id, PurchasedBy |-> <<"john">>,
     Refs |-> refs, Created |-> 0, Updated |-> 0]

\* errorRefEntity of the package's tests: its MarshalRefs fails.
ErrorRefEntity == [kind |-> "errorRef", Refs |-> << >>]

\* A caller's RefMarshaler with the MarshalSelf of errorEntity and the MarshalRefs
\* of an Order.
BrokenOrder(id, refs) == [kind |-> "broken", ID |-> id, Refs |-> refs]

IsRefMarshaler(e) == e.kind \in {"order", "eager", "errorRef", "broken"}

ErrorRefEntityMarshalSelf(e, opts) ==
    [err |-> NoErr, opts |-> WithSelfTarget(opts, <<"error">>, <<"E1">>)]

ErrorEntityMarshalSelf(e, opts) == [err |-> "marshal error", opts |-> opts]

EagerOrderMarshalSelf(o, opts) ==
    [err |-> NoErr,
     opts |-> [WithSelfTarget(opts, <<"bundle">>, o.ID) EXCEPT !.SkipRefs = FALSE]]

OrderMarshalSelf(o, opts) ==
    LET o1 == WithSelfTarget(opts, <<"order">>, o.ID)
        o2 == [o1 EXCEPT !.RefSortKey = Decimal(o1.Created)]
    IN  [err |-> NoErr, opts |-> [o2 EXCEPT !.Created = o.Created, !.Updated = o.Updated]]

ProductMarshalSelf(p, opts) ==
    [err |-> NoErr,
     opts |-> [opts EXCEPT !.SourcePrefix = <<"product">>, !.SourceID = p.ID,
                           !.TargetPrefix = <<"product">>, !.TargetID = p.ID,
                           !.Label = <<"product">>, !.RefSortKey = p.Category]]

PageCursorMarshalSelf(p, opts) ==
    [err |-> NoErr,
     opts |-> [opts EXCEPT !.SourcePrefix = <<"page">>, !.SourceID = p.Cursor,
                           !.TargetPrefix = <<"page">>, !.TargetID = p.Cursor,
                           !.Label = <<"page">>, !.TimeToLive = Hours24,
                           !.RefSortKey = p.Cursor]]

MarshalSelf(e, opts) ==
    CASE e.kind = "order" -> OrderMarshalSelf(e, opts)
      [] e.kind = "product" -> ProductMarshalSelf(e, opts)
      [] e.kind = "page" -> PageCursorMarshalSelf(e, opts)
      [] e.kind = "error" -> ErrorEntityMarshalSelf(e, opts)
      [] e.kind = "eager" -> EagerOrderMarshalSelf(e, opts)
      [] e.kind = "errorRef" -> ErrorRefEntityMarshalSelf(e, opts)
      [] e.kind = "broken" -> ErrorEntityMarshalSelf(e, opts)

(***************************************************************************)
(* RelationshipContext: AddOne, AddMany and the entity's MarshalRefs.      *)
(* An Order's Refs is the sequence of (name, related entity) pairs its     *)
(* MarshalRefs hands to AddMany, in order.                                 *)
(***************************************************************************)
RefData(name, sourceID, targetID) ==
    [kind |-> "ref", Name |-> name, SourceID |-> sourceID, TargetID |-> targetID]

\* A hook of an entity that a call invoked, for the record of what ran.
Hook(hook, e) == [hook |-> hook, on |-> e]

\* AddOne without restoring the parent's SourceID and SourcePrefix.
AddOneKeepRefSource(r, name, ref, clock) ==
    IF r.err # NoErr THEN r
    ELSE LET m == MarshalSelf(ref, r.opts)
             called == [r EXCEPT !.calls = Append(r.calls, Hook("MarshalSelf", ref))]
         IN  IF m.err # NoErr
             THEN [called EXCEPT !.err = "failed to marshal reference",
                                 !.errArgs = <<name>>]
             ELSE LET rel == NewRelationship(
                                 RefData(name, r.opts.SourceID, m.opts.TargetID),
                                 m.opts, clock)
                  IN  [called EXCEPT !.refs = Append(r.refs,
                                   [rel EXCEPT !.Source = r.source,
                                               !.Label = refLabel(m.opts, name)])]

\* AddOne without the check of an error recorded earlier.
AddOneNoGuard(r, name, ref, clock) ==
    LET m == MarshalSelf(ref, r.opts)
        called == [r EXCEPT !.calls = Append(r.calls, Hook("MarshalSelf", ref))]
    IN  IF m.err # NoErr
        THEN [called EXCEPT !.err = "failed to marshal reference", !.errArgs = <<name>>]
        ELSE LET refOpts == [m.opts EXCEPT !.SourceID = r.opts.SourceID,
                                           !.SourcePrefix = r.opts.SourcePrefix]
                 rel == NewRelationship(
                            RefData(name, r.opts.SourceID, refOpts.TargetID),
                            refOpts, clock)
             IN  [called EXCEPT !.refs = Append(r.refs,
                              [rel EXCEPT !.Source = r.source,
                                          !.Label = refLabel(refOpts, name)])]

\* AddOne handing the context's own options to the related entity's MarshalSelf.
AddOneSharedOptions(r, name, ref, clock) ==
    IF r.err # NoErr THEN r
    ELSE LET m == MarshalSelf(ref, r.opts)
             called == [r EXCEPT !.calls = Append(r.calls, Hook("MarshalSelf", ref)),
                                 !.opts = m.opts]
         IN  IF m.err # NoErr
             THEN [called EXCEPT !.err = "failed to marshal reference",
                                 !.errArgs = <<name>>]
             ELSE [called EXCEPT !.refs = Append(r.refs,
                       [NewRelationship(RefData(name, m.opts.SourceID, m.opts.TargetID),
                                        m.opts, clock)
                           EXCEPT !.Source = r.source,
                                  !.Label = refLabel(m.opts, name)])]

\* r.calls records the MarshalSelf calls made on related entities and r.errArgs the
\* relationship name formatted into the recorded error.
AddOne(r, name, ref, clock) ==
    LET Record(called, m, refOpts) ==
            IF m.err # NoErr
            THEN [called EXCEPT !.err = "failed to marshal reference",
                                !.errArgs = <<name>>]
            ELSE [called EXCEPT !.refs = Append(r.refs,
                      [NewRelationship(RefData(name, r.opts.SourceID, refOpts.TargetID),
                                       refOpts, clock)
                          EXCEPT !.Source = r.source,
                                 !.Label = refLabel(refOpts, name)])]
        Marshalled(m) ==
            Record([r EXCEPT !.calls = Append(r.calls, Hook("MarshalSelf", ref))], m,
                   [m.opts EXCEPT !.SourceID = r.opts.SourceID,
                                  !.SourcePrefix = r.opts.SourcePrefix])
    IN  IF r.err # NoErr THEN r ELSE Marshalled(MarshalSelf(ref, r.opts))

\* The loop of AddMany over refs[lo..hi], which ends at the first error; the range
\* is taken by halves, left half first.
RECURSIVE AddRange(_, _, _, _, _, _)
AddRange(r, name, refs, lo, hi, clock) ==
    LET Rest(r1, mid) ==
            IF r1.err # NoErr THEN r1 ELSE AddRange(r1, name, refs, mid + 1, hi, clock)
    IN  IF lo > hi THEN r
        ELSE IF lo = hi THEN AddOne(r, name, refs[lo], clock)
        ELSE Rest(AddRange(r, name, refs, lo, (lo + hi) \div 2, clock), (lo + hi) \div 2)

AddMany(r, name, refs, clock) == AddRange(r, name, refs, 1, Len(refs), clock)

\* The runs of an entity's references under one name: one AddMany call each.
Groups(refs) ==
    LET starts == {i \in 1..Len(refs) : i = 1 \/ refs[i].name # refs[i - 1].name}
        StartOf(k) == CHOOSE s \in starts : Cardinality({t \in starts : t <= s}) = k
        EndOf(k) == IF k = Cardinality(starts) THEN Len(refs) ELSE StartOf(k + 1) - 1
    IN  [k \in 1..Cardinality(starts) |->
            [name |-> refs[StartOf(k)].name,
             refs |-> [j \in 1..(EndOf(k) - StartOf(k) + 1) |-> refs[StartOf(k) + j - 1].ref]]]

RECURSIVE AddGroups(_, _, _)
AddGroups(r, groups, clock) ==
    IF groups = << >> THEN r
    ELSE AddGroups(AddMany(r, Head(groups).name, Head(groups).refs, clock),
                   Tail(groups), clock)

MarshalRefs(e, r, clock) ==
    IF e.kind = "errorRef" THEN [err |-> "marshal refs error", ctx |-> r]
    ELSE [err |-> NoErr, ctx |-> AddGroups(r, Groups(e.Refs), clock)]

(***************************************************************************)
(* MarshalRelationships: the self record, then the context's records.      *)
(* hooks lists the entity hooks the call invoked, in order.                *)
(***************************************************************************)
\* MarshalRelationships returning the self record it built when MarshalRefs fails.
MarshalRelationshipsKeepSelf(in, opts, clock) ==
    LET Result(rels, err, errArgs, hooks) ==
            [rels |-> rels, err |-> err, errArgs |-> errArgs, hooks |-> hooks]
        WithRefs(self, mr, hooks) ==
            IF mr.err # NoErr
            THEN Result(<<self>>, "failed to marshal refs", << >>, hooks)
            ELSE IF mr.ctx.err # NoErr
            THEN Result(<< >>, mr.ctx.err, mr.ctx.errArgs, hooks \o mr.ctx.calls)
            ELSE Result(<<self>> \o mr.ctx.refs, NoErr, << >>, hooks \o mr.ctx.calls)
        WithSelf(m, selfHook) ==
            IF m.err # NoErr
            THEN Result(<< >>, "failed to marshal self", << >>, selfHook)
            ELSE IF IsRefMarshaler(in) /\ ~m.opts.SkipRefs
            THEN WithRefs(NewRelationship(in, m.opts, clock),
                          MarshalRefs(in, [source |-> sourceKey(m.opts), opts |-> m.opts,
                                           refs |-> << >>, err |-> NoErr,
                                           errArgs |-> << >>, calls |-> << >>], clock),
                          selfHook \o <<Hook("MarshalRefs", in)>>)
            ELSE Result(<<NewRelationship(in, m.opts, clock)>>, NoErr, << >>, selfHook)
    IN  WithSelf(MarshalSelf(in, newMarshalOptions(opts, clock)), <<Hook("MarshalSelf", in)>>)

MarshalRelationships(in, opts, clock) ==
    LET Result(rels, err, errArgs, hooks) ==
            [rels |-> rels, err |-> err, errArgs |-> errArgs, hooks |-> hooks]
        WithRefs(self, mr, hooks) ==
            IF mr.err # NoErr
            THEN Result(<< >>, "failed to marshal refs", << >>, hooks)
            ELSE IF mr.ctx.err # NoErr
            THEN Result(<< >>, mr.ctx.err, mr.ctx.errArgs, hooks \o mr.ctx.calls)
            ELSE Result(<<self>> \o mr.ctx.refs, NoErr, << >>, hooks \o mr.ctx.calls)
        WithSelf(m, selfHook) ==
            IF m.err # NoErr
            THEN Result(<< >>, "failed to marshal self", << >>, selfHook)
            ELSE IF IsRefMarshaler(in) /\ ~m.opts.SkipRefs
            THEN WithRefs(NewRelationship(in, m.opts, clock),
                          MarshalRefs(in, [source |-> sourceKey(m.opts), opts |-> m.opts,
                                           refs |-> << >>, err |-> NoErr,
                                           errArgs |-> << >>, calls |-> << >>], clock),
                          selfHook \o <<Hook("MarshalRefs", in)>>)
            ELSE Result(<<NewRelationship(in, m.opts, clock)>>, NoErr, << >>, selfHook)
    IN  WithSelf(MarshalSelf(in, newMarshalOptions(opts, clock)), <<Hook("MarshalSelf", in)>>)

(***************************************************************************)
(* attributevalue: DynamoDB attribute values are records [T, Value].       *)
(* A struct marshals to an M of its tagged fields; a time marshals to its  *)
(* text, or to a number under the unixtime tag; omitempty drops a field.   *)
(***************************************************************************)
AvS(v) == [T |-> "S", Value |-> v]
AvN(v) == [T |-> "N", Value |-> v]
AvB(v) == [T |-> "B", Value |-> v]
AvM(v) == [T |-> "M", Value |-> v]

MarshalData(d) ==
    CASE d.kind \in {"order", "eager"} ->
            AvM([id |-> AvS(d.ID), purchased_by |-> AvS(d.PurchasedBy)])
      [] d.kind = "product" -> AvM([id |-> AvS(d.ID), category |-> AvS(d.Category)])
      [] d.kind = "page" -> AvM([Cursor |-> AvS(d.Cursor), Key |-> AvB(d.Key)])
      [] d.kind = "ref" -> AvM([Name |-> AvS(d.Name), SourceID |-> AvS(d.SourceID),
                                TargetID |-> AvS(d.TargetID)])
      [] d.kind = "errorRef" -> AvM(<< >>)

MarshalMapRel(rel) ==
    LET attrs == {"hk", "sk", "label", "created_at", "updated_at", "expires"}
                    \cup (IF rel.Data = NoData THEN {} ELSE {"data"})
                    \cup (IF rel.GSI1SK = EmptyStr THEN {} ELSE {"gsi1_sk"})
    IN  [a \in attrs |->
            CASE a = "hk" -> AvS(rel.Source)
              [] a = "sk" -> AvS(rel.Target)
              [] a = "label" -> AvS(rel.Label)
              [] a = "created_at" -> AvS(Decimal(rel.CreatedAt))
              [] a = "updated_at" -> AvS(Decimal(rel.UpdatedAt))
              [] a = "expires" -> AvN(rel.Expires)
              [] a = "data" -> MarshalData(rel.Data)
              [] a = "gsi1_sk" -> AvS(rel.GSI1SK)]

(***************************************************************************)
(* Table: the request builders.  The table's own option function sets the  *)
(* delimiters, applies the caller's options, then fixes SkipRefs.          *)
(***************************************************************************)
NewTable(name) ==
    [TableName |-> name, RefIndexName |-> <<"ref-index">>,
     KeyDelimiter |-> <<"#">>, LabelDelimiter |-> <<"/">>, PaginationTTL |-> Hours24]

NilRequest == [isNil |-> TRUE]

\* MarshalPut applying the caller's options after it has set SkipRefs.
MarshalPutCallerLast(t, in, opts, clock) ==
    LET Request(m) ==
            IF m.err # NoErr
            THEN [input |-> NilRequest, err |-> "failed to marshal relationships",
                  hooks |-> m.hooks]
            ELSE IF Len(m.rels) # 1
            THEN [input |-> NilRequest, err |-> "expected exactly 1 relationship for put",
                  hooks |-> m.hooks]
            ELSE [input |-> [isNil |-> FALSE, TableName |-> t.TableName,
                             Item |-> MarshalMapRel(m.rels[1])],
                  err |-> NoErr, hooks |-> m.hooks]
    IN  Request(MarshalRelationships(in,
            <<[KeyDelimiter |-> t.KeyDelimiter, LabelDelimiter |-> t.LabelDelimiter]>>
               \o <<[SkipRefs |-> TRUE]>> \o opts, clock))

MarshalPut(t, in, opts, clock) ==
    LET Request(m) ==
            IF m.err # NoErr
            THEN [input |-> NilRequest, err |-> "failed to marshal relationships",
                  hooks |-> m.hooks]
            ELSE IF Len(m.rels) # 1
            THEN [input |-> NilRequest, err |-> "expected exactly 1 relationship for put",
                  hooks |-> m.hooks]
            ELSE [input |-> [isNil |-> FALSE, TableName |-> t.TableName,
                             Item |-> MarshalMapRel(m.rels[1])],
                  err |-> NoErr, hooks |-> m.hooks]
    IN  Request(MarshalRelationships(in,
            <<[KeyDelimiter |-> t.KeyDelimiter, LabelDelimiter |-> t.LabelDelimiter]>>
               \o opts \o <<[SkipRefs |-> TRUE]>>, clock))

Min(a, b) == IF a < b THEN a ELSE b

\* A write request deleting the record's key instead of putting its item.
DeleteRequest(rel) ==
    [DeleteRequest |-> [Key |-> [hk |-> AvS(rel.Source), sk |-> AvS(rel.Target)]]]

PutRequest(rel) == [PutRequest |-> [Item |-> MarshalMapRel(rel)]]

\* The chunking loop with a batch one request larger than MaxBatchSize.
RECURSIVE ChunksOversize(_, _, _)
ChunksOversize(t, rels, i) ==
    IF ~(i < Len(rels)) THEN << >>
    ELSE LET end == Min(i + MaxBatchSize + 1, Len(rels))
             writeRequests == [j \in 1..(end - i) |-> PutRequest(rels[i + j])]
         IN  <<[TableName |-> t.TableName, Requests |-> writeRequests]>>
                \o ChunksOversize(t, rels, i + MaxBatchSize + 1)

\* The chunking loop of MarshalBatch, i counted from 0 as in the source.
RECURSIVE Chunks(_, _, _)
Chunks(t, rels, i) ==
    IF ~(i < Len(rels)) THEN << >>
    ELSE LET end == Min(i + MaxBatchSize, Len(rels))
             writeRequests == [j \in 1..(end - i) |-> PutRequest(rels[i + j])]
         IN  <<[TableName |-> t.TableName, Requests |-> writeRequests]>>
                \o Chunks(t, rels, i + MaxBatchSize)

MarshalBatch(t, in, opts, clock) ==
    LET Requests(m) ==
            IF m.err # NoErr
            THEN [batches |-> << >>, err |-> "failed to marshal relationships",
                  hooks |-> m.hooks]
            ELSE [batches |-> Chunks(t, m.rels, 0), err |-> NoErr, hooks |-> m.hooks]
    IN  Requests(MarshalRelationships(in,
            <<[KeyDelimiter |-> t.KeyDelimiter, LabelDelimiter |-> t.LabelDelimiter]>>
               \o opts \o <<[SkipRefs |-> FALSE]>>, clock))

KeyRequest(t, in, opts, clock) ==
    LET Request(m) ==
            IF m.err # NoErr
            THEN [input |-> NilRequest, err |-> "failed to marshal self"]
            ELSE [input |-> [isNil |-> FALSE, TableName |-> t.TableName,
                             Key |-> [hk |-> AvS(sourceKey(m.opts)),
                                      sk |-> AvS(sourceKey(m.opts))]],
                  err |-> NoErr]
    IN  Request(MarshalSelf(in, newMarshalOptions(
            <<[KeyDelimiter |-> t.KeyDelimiter, LabelDelimiter |-> t.LabelDelimiter]>>
               \o opts \o <<[SkipRefs |-> TRUE]>>, clock)))

MarshalGet(t, in, opts, clock) == KeyRequest(t, in, opts, clock)

MarshalDelete(t, in, opts, clock) == KeyRequest(t, in, opts, clock)

(***************************************************************************)
(* Queries.  A key condition is the attribute, the value it must equal and *)
(* whether the caller's sort-key filter is and-ed to it.                   *)
(***************************************************************************)
QueryEntity(source, hasTargetFilter, hasFilter, limit, startKey, desc) ==
    [kind |-> "QueryEntity", Source |-> source, TargetFilter |-> hasTargetFilter,
     ConditionFilter |-> hasFilter, Limit |-> limit, StartKey |-> startKey,
     SortDescending |-> desc]

QueryList(label, hasSortFilter, hasFilter, limit, startKey, desc) ==
    [kind |-> "QueryList", Label |-> label, RefSortFilter |-> hasSortFilter,
     ConditionFilter |-> hasFilter, Limit |-> limit, StartKey |-> startKey,
     SortDescending |-> desc]

QueryInput(attr, value, sortFilter, q) ==
    [isNil |-> FALSE,
     KeyCondition |-> [name |-> attr, equals |-> value, andSortFilter |-> sortFilter],
     Filter |-> q.ConditionFilter,
     ScanIndexForward |-> ~q.SortDescending,
     Limit |-> IF q.Limit > 0 THEN q.Limit ELSE 0,
     ExclusiveStartKey |-> q.StartKey,
     TableName |-> EmptyStr, IndexName |-> EmptyStr]

QueryListMarshalQuery(q, opts) ==
    [input |-> QueryInput("label", q.Label, q.RefSortFilter, q), err |-> NoErr]

QueryEntityMarshalQuery(q, opts) ==
    LET sourceOpts == [opts EXCEPT !.SkipRefs = TRUE]
        m == MarshalSelf(q.Source, sourceOpts)
    IN  IF m.err # NoErr
        THEN [input |-> NilRequest, err |-> "failed to marshal source"]
        ELSE [input |-> QueryInput("hk", sourceKey(opts), q.TargetFilter, q),
              err |-> NoErr]

\* Filter conditions on expires: the attribute, the comparison and the operand
\* (moment.Unix(), the moment in the model's unit).
ExpiresAfter(moment) == [name |-> "expires", cmp |-> "LessThan", value |-> AvN(moment)]

ExpiresBefore(moment) == [name |-> "expires", cmp |-> "GreaterThan", value |-> AvN(moment)]

\* DynamoDB evaluating a comparison on an item: the attribute is the left operand.
Matches(item, cond) ==
    /\ cond.name \in DOMAIN item
    /\ item[cond.name].T = cond.value.T
    /\ CASE cond.cmp = "LessThan" -> item[cond.name].Value < cond.value.Value
         [] cond.cmp = "GreaterThan" -> item[cond.name].Value > cond.value.Value

\* UseRefIndex inferred from the shape of the query: only with a sort-key filter.
UseRefIndexIfSorted(q) == q.kind = "QueryList" /\ q.RefSortFilter

UseRefIndex(q) == q.kind = "QueryList"

TableMarshalQuery(t, q, opts, clock) ==
    LET marshalOpts == newMarshalOptions(<<[KeyDelimiter |-> t.KeyDelimiter]>> \o opts, clock)
        r == IF q.kind = "QueryList"
             THEN QueryListMarshalQuery(q, marshalOpts)
             ELSE QueryEntityMarshalQuery(q, marshalOpts)
    IN  IF r.err # NoErr
        THEN [input |-> NilRequest, err |-> "failed to marshal query"]
        ELSE [input |-> [r.input EXCEPT
                            !.TableName = t.TableName,
                            !.IndexName = IF UseRefIndex(q) THEN t.RefIndexName
                                          ELSE EmptyStr],
              err |-> NoErr]

(***************************************************************************)
(* Unmarshaling.  attributevalue decodes an M into a struct by tag name,   *)
(* leaving the fields the M lacks untouched, and refuses any other value.  *)
(***************************************************************************)
DigitOf(sym) == (CHOOSE i \in 1..10 : DigitSyms[i] = sym) - 1

RECURSIVE ParseDecimal(_)
ParseDecimal(s) ==
    IF s = << >> THEN 0
    ELSE ParseDecimal(SubSeq(s, 1, Len(s) - 1)) * 10 + DigitOf(s[Len(s)])

Field(m, name, old) == IF name \in DOMAIN m THEN m[name].Value ELSE old

UnmarshalData(data, out) ==
    IF data.T # "M" THEN [err |-> "failed to unmarshal data", out |-> out]
    ELSE LET m == data.Value
         IN  [err |-> NoErr,
              out |->
                CASE out.kind = "order" ->
                        [out EXCEPT !.ID = Field(m, "id", out.ID),
                                    !.PurchasedBy = Field(m, "purchased_by", out.PurchasedBy)]
                  [] out.kind = "product" ->
                        [out EXCEPT !.ID = Field(m, "id", out.ID),
                                    !.Category = Field(m, "category", out.Category)]
                  [] out.kind = "page" ->
                        [out EXCEPT !.Cursor = Field(m, "Cursor", out.Cursor),
                                    !.Key = Field(m, "Key", out.Key)]
                  [] out.kind = "ref" ->
                        [out EXCEPT !.Name = Field(m, "Name", out.Name),
                                    !.SourceID = Field(m, "SourceID", out.SourceID),
                                    !.TargetID = Field(m, "TargetID", out.TargetID)]]

UnmarshalMapRel(item) ==
    [Source |-> IF "hk" \in DOMAIN item THEN item["hk"].Value ELSE EmptyStr,
     Target |-> IF "sk" \in DOMAIN item THEN item["sk"].Value ELSE EmptyStr,
     Label |-> IF "label" \in DOMAIN item THEN item["label"].Value ELSE EmptyStr,
     CreatedAt |-> IF "created_at" \in DOMAIN item
                   THEN ParseDecimal(item["created_at"].Value) ELSE 0,
     UpdatedAt |-> IF "updated_at" \in DOMAIN item
                   THEN ParseDecimal(item["updated_at"].Value) ELSE 0,
     Expires |-> IF "expires" \in DOMAIN item THEN item["expires"].Value ELSE 0,
     Data |-> IF "data" \in DOMAIN item THEN item["data"] ELSE NoData,
     GSI1SK |-> IF "gsi1_sk" \in DOMAIN item THEN item["gsi1_sk"].Value ELSE EmptyStr]

\* The entity's own UnmarshalSelf hook (Order: it takes the record's timestamps).
UnmarshalSelfHook(out, rel) ==
    IF out.kind = "order"
    THEN [out EXCEPT !.Created = rel.CreatedAt, !.Updated = rel.UpdatedAt]
    ELSE out

\* isUnmarshaler: whether the dynamic type of the value handed in as `out`
\* has the UnmarshalSelf method (a pointer to an interface value has none).
UnmarshalSelf(item, out, isUnmarshaler) ==
    LET Decoded(rel, d) ==
            IF d.err # NoErr
            THEN [rel |-> rel, out |-> d.out, err |-> d.err]
            ELSE IF ~isUnmarshaler
            THEN [rel |-> rel, out |-> d.out, err |-> NoErr]
            ELSE [rel |-> rel, out |-> UnmarshalSelfHook(d.out, rel), err |-> NoErr]
        Record(rel) ==
            IF "data" \notin DOMAIN item
            THEN [rel |-> rel, out |-> out, err |-> "data attribute not found"]
            ELSE Decoded(rel, UnmarshalData(item["data"], out))
    IN  Record(UnmarshalMapRel(item))

\* UnmarshalTableKey taking a missing hk or sk for the empty key.
UnmarshalTableKeyLenient(item) ==
    [source |-> IF "hk" \in DOMAIN item THEN item["hk"].Value ELSE EmptyStr,
     target |-> IF "sk" \in DOMAIN item THEN item["sk"].Value ELSE EmptyStr,
     err |-> NoErr]

UnmarshalTableKey(item) ==
    IF "hk" \notin DOMAIN item \/ "sk" \notin DOMAIN item
    THEN [source |-> EmptyStr, target |-> EmptyStr, err |-> "source and target keys not found"]
    ELSE [source |-> item["hk"].Value, target |-> item["sk"].Value, err |-> NoErr]

\* Order.UnmarshalRef: a "products" reference becomes a Product with the id given.
UnmarshalRef(out, name, id, rel) ==
    IF name = <<"products">>
    THEN [out EXCEPT !.Refs = Append(out.Refs, [name |-> name, ref |-> Product(id, EmptyStr)])]
    ELSE out

ErrItemNotFound == "item not found"

\* The loop of UnmarshalEntity over items[lo..hi], which ends at the first error;
\* the range is taken by halves, left half first.  acc carries the output entity,
\* the records so far and the UnmarshalRef calls made.
RECURSIVE UnmarshalItems(_, _, _, _, _)
UnmarshalItems(items, lo, hi, marshalOpts, acc) ==
    LET Self(u) ==
            IF u.err # NoErr
            THEN [acc EXCEPT !.rels = << >>, !.out = u.out,
                             !.err = "failed to unmarshal self"]
            ELSE [acc EXCEPT !.out = u.out, !.rels = Append(acc.rels, u.rel)]
        Labelled(u, l) ==
            IF l.err # NoErr
            THEN [acc EXCEPT !.rels = << >>, !.err = "invalid label format"]
            ELSE [acc EXCEPT !.out = UnmarshalRef(acc.out, l.name, l.id, u.rel),
                             !.calls = Append(acc.calls, [name |-> l.name, id |-> l.id]),
                             !.rels = Append(acc.rels, u.rel)]
        Ref(u) ==
            IF u.err # NoErr
            THEN [acc EXCEPT !.rels = << >>, !.err = "failed to unmarshal relationship"]
            ELSE Labelled(u, splitLabel(marshalOpts, u.rel.Label))
        Keyed(item, k) ==
            IF k.err # NoErr
            THEN [acc EXCEPT !.rels = << >>, !.err = "failed to unmarshal table key"]
            ELSE IF k.source = k.target
            THEN Self(UnmarshalSelf(item, acc.out, FALSE))
            ELSE Ref(UnmarshalSelf(item, RefData(EmptyStr, EmptyStr, EmptyStr), FALSE))
        Rest(acc1, mid) ==
            IF acc1.err # NoErr THEN acc1
            ELSE UnmarshalItems(items, mid + 1, hi, marshalOpts, acc1)
    IN  IF lo > hi THEN acc
        ELSE IF lo = hi THEN Keyed(items[lo], UnmarshalTableKey(items[lo]))
        ELSE Rest(UnmarshalItems(items, lo, (lo + hi) \div 2, marshalOpts, acc),
                  (lo + hi) \div 2)

\* UnmarshalEntity without the check for an empty item list.
UnmarshalEntityNoEmptyCheck(items, out, opts, clock) ==
    UnmarshalItems(items, 1, Len(items), newMarshalOptions(opts, clock),
        [rels |-> << >>, err |-> NoErr, out |-> out, calls |-> << >>])

\* UnmarshalEntity walking the items from the last to the first.
UnmarshalEntityBackwards(items, out, opts, clock) ==
    IF Len(items) = 0
    THEN [rels |-> << >>, err |-> ErrItemNotFound, out |-> out, calls |-> << >>]
    ELSE UnmarshalItems([i \in 1..Len(items) |-> items[Len(items) + 1 - i]], 1, Len(items),
             newMarshalOptions(opts, clock),
             [rels |-> << >>, err |-> NoErr, out |-> out, calls |-> << >>])

\* UnmarshalEntity taking a result without a self record for a missing item.
UnmarshalEntityNeedsSelf(items, out, opts, clock) ==
    IF \A i \in 1..Len(items) :
          {"hk", "sk"} \subseteq DOMAIN items[i] => items[i]["hk"] # items[i]["sk"]
    THEN [rels |-> << >>, err |-> ErrItemNotFound, out |-> out, calls |-> << >>]
    ELSE UnmarshalItems(items, 1, Len(items), newMarshalOptions(opts, clock),
             [rels |-> << >>, err |-> NoErr, out |-> out, calls |-> << >>])

UnmarshalEntity(items, out, opts, clock) ==
    IF Len(items) = 0
    THEN [rels |-> << >>, err |-> ErrItemNotFound, out |-> out, calls |-> << >>]
    ELSE UnmarshalItems(items, 1, Len(items), newMarshalOptions(opts, clock),
             [rels |-> << >>, err |-> NoErr, out |-> out, calls |-> << >>])

\* UnmarshalList into a slice of T, zero being T's zero value; a pointer to a T
\* is an Unmarshaler exactly when T has the UnmarshalSelf method (Order has).
RECURSIVE UnmarshalListFrom(_, _, _, _)
UnmarshalListFrom(items, i, zero, acc) ==
    LET Value(u) ==
            IF u.err # NoErr
            THEN [acc EXCEPT !.rels = << >>, !.err = "failed to unmarshal item"]
            ELSE UnmarshalListFrom(items, i + 1, zero,
                     [acc EXCEPT !.out = Append(acc.out, u.out),
                                 !.rels = Append(acc.rels, u.rel)])
    IN  IF i > Len(items) THEN acc
        ELSE Value(UnmarshalSelf(items[i], zero, zero.kind = "order"))

UnmarshalList(items, out, zero) ==
    UnmarshalListFrom(items, 1, zero, [rels |-> << >>, err |-> NoErr, out |-> out])

(***************************************************************************)
(* The DynamoDB client: the table is a function from the primary key       *)
(* <<hk, sk>> to the item stored under it.                                 *)
(***************************************************************************)
EmptyStore == [k \in {} |-> k]

KeyOf(item) == <<item["hk"].Value, item["sk"].Value>>

PutItem(st, item) ==
    [k \in DOMAIN st \cup {KeyOf(item)} |-> IF k = KeyOf(item) THEN item ELSE st[k]]

HasItem(st, key) == KeyOf(key) \in DOMAIN st

GetItem(st, key) == st[KeyOf(key)]

DeleteItem(st, key) == [k \in DOMAIN st \ {KeyOf(key)} |-> st[k]]

(***************************************************************************)
(* Pagination.  A Go map value is [isNil, m]; a []byte is a sequence.      *)
(* attributevalue.MarshalMap walks the last key as it walks any Go value:  *)
(* each member is a struct with the one exported field Value, and becomes  *)
(* an M holding that field.  gob then frames the map as bytes.             *)
(***************************************************************************)
NilItem == [isNil |-> TRUE, m |-> << >>]
ItemOf(m) == [isNil |-> FALSE, m |-> m]

MarshalMember(av) ==
    AvM([Value |-> IF av.T \in {"S", "N"} THEN AvS(av.Value) ELSE av])

MarshalMapItem(m) == [a \in DOMAIN m |-> MarshalMember(m[a])]

GobEncode(m) == <<[gob |-> m]>>

GobDecode(bytes) == bytes[1].gob

\* PageCursor returning early for a nil last key only, not for an empty one.
PageCursorNilOnly(t, st, lastkey, fresh, clock, putOk) ==
    IF lastkey.isNil
    THEN [cursor |-> EmptyStr, err |-> NoErr, store |-> st, io |-> << >>]
    ELSE LET pageCursor == NewPageCursor(fresh, GobEncode(MarshalMapItem(lastkey.m)))
             put == MarshalPut(t, pageCursor, <<[TimeToLive |-> t.PaginationTTL]>>, clock)
         IN  IF put.err # NoErr \/ ~putOk
             THEN [cursor |-> EmptyStr, err |-> "failed to store page cursor",
                   store |-> st, io |-> <<"PutItem">>]
             ELSE [cursor |-> fresh, err |-> NoErr,
                   store |-> PutItem(st, put.input.Item), io |-> <<"PutItem">>]

PageCursor(t, st, lastkey, fresh, clock, putOk) ==
    LET Stored(put) ==
            IF put.err # NoErr
            THEN [cursor |-> EmptyStr, err |-> "failed to marshal page cursor",
                  store |-> st, io |-> << >>]
            ELSE IF ~putOk
            THEN [cursor |-> EmptyStr, err |-> "failed to store page cursor",
                  store |-> st, io |-> <<"PutItem">>]
            ELSE [cursor |-> fresh, err |-> NoErr,
                  store |-> PutItem(st, put.input.Item), io |-> <<"PutItem">>]
    IN  IF lastkey.isNil \/ DOMAIN lastkey.m = {}
        THEN [cursor |-> EmptyStr, err |-> NoErr, store |-> st, io |-> << >>]
        ELSE Stored(MarshalPut(t, NewPageCursor(fresh, GobEncode(MarshalMapItem(lastkey.m))),
                               <<[TimeToLive |-> t.PaginationTTL]>>, clock))

\* StartKey reporting a cursor without a record as an error.
StartKeyNotFoundIsError(t, st, cursor, clock, getOk) ==
    IF cursor = EmptyStr
    THEN [key |-> NilItem, err |-> NoErr, store |-> st, io |-> << >>]
    ELSE LET pageCursor == NewPageCursor(cursor, << >>)
             get == MarshalGet(t, pageCursor, << >>, clock)
         IN  IF get.err # NoErr \/ ~getOk \/ ~HasItem(st, get.input.Key)
             THEN [key |-> NilItem, err |-> "failed to get page cursor",
                   store |-> st, io |-> <<"GetItem">>]
             ELSE LET u == UnmarshalSelf(GetItem(st, get.input.Key), pageCursor, FALSE)
                  IN  IF Len(u.out.Key) = 0
                      THEN [key |-> NilItem, err |-> NoErr, store |-> st,
                            io |-> <<"GetItem">>]
                      ELSE [key |-> ItemOf(GobDecode(u.out.Key)), err |-> NoErr,
                            store |-> st, io |-> <<"GetItem">>]

StartKey(t, st, cursor, clock, getOk) ==
    LET Key(u) ==
            IF u.err # NoErr
            THEN [key |-> NilItem, err |-> "failed to unmarshal page cursor",
                  store |-> st, io |-> <<"GetItem">>]
            ELSE IF Len(u.out.Key) = 0
            THEN [key |-> NilItem, err |-> NoErr, store |-> st, io |-> <<"GetItem">>]
            ELSE [key |-> ItemOf(GobDecode(u.out.Key)), err |-> NoErr,
                  store |-> st, io |-> <<"GetItem">>]
        Got(pageCursor, get) ==
            IF get.err # NoErr
            THEN [key |-> NilItem, err |-> "failed to marshal get request",
                  store |-> st, io |-> << >>]
            ELSE IF ~getOk
            THEN [key |-> NilItem, err |-> "failed to get page cursor",
                  store |-> st, io |-> <<"GetItem">>]
            ELSE IF ~HasItem(st, get.input.Key)
            THEN [key |-> NilItem, err |-> NoErr, store |-> st, io |-> <<"GetItem">>]
            ELSE Key(UnmarshalSelf(GetItem(st, get.input.Key), pageCursor, FALSE))
    IN  IF cursor = EmptyStr
        THEN [key |-> NilItem, err |-> NoErr, store |-> st, io |-> << >>]
        ELSE Got(NewPageCursor(cursor, << >>),
                 MarshalGet(t, NewPageCursor(cursor, << >>), << >>, clock))

(***************************************************************************)
(* The pagination system: one table, its paginator, the clock and the      *)
(* store's TTL sweep.  Every call records its inputs in call and what it   *)
(* returned in ret; ret.io lists the client requests the call issued.      *)
(***************************************************************************)
CursorId(n) == <<"cursor">> \o Decimal(n)

\* generateCursor leads its text with the time in nanoseconds: the ids come out in
\* the order of the calls, and no two calls share one.
CursorIds == {CursorId(1), CursorId(2)}

NextCursor(used) == CursorId(Cardinality(used) + 1)

OtherCursors == {<<"empty-cursor">>}

Tokens ==
    {[hk |-> AvS(<<"test", "#", "123">>), sk |-> AvS(<<"test", "#", "456">>)],
     [hk |-> AvS(<<"order", "#", "O1">>), sk |-> AvS(<<"product", "#", "P1">>),
      label |-> AvS(<<"order", "/", "O1", "/", "products">>)]}

LastKeys == {NilItem, ItemOf(<< >>)} \cup {ItemOf(m) : m \in Tokens}

IsEmptyKey(lastkey) == lastkey.isNil \/ DOMAIN lastkey.m = {}

PaginationTTLs == {1, Hours24}

Tables == {[NewTable(<<"test-table">>) EXCEPT !.PaginationTTL = ttl] : ttl \in PaginationTTLs}

PageKey(t, cursor) == <<<<"page">> \o t.KeyDelimiter \o cursor,
                        <<"page">> \o t.KeyDelimiter \o cursor>>

Init ==
    /\ table \in Tables
    /\ store = EmptyStore
    /\ now = 1
    /\ issued = {}
    /\ tokenOf = EmptyStore
    /\ call = [op |-> "init"]
    /\ ret = [err |-> NoErr]

PageCursorCall ==
    \E lastkey \in LastKeys, ok \in BOOLEAN :
        /\ IsEmptyKey(lastkey) \/ NextCursor(issued) \in CursorIds
        /\ \E r \in {PageCursor(table, store, lastkey, NextCursor(issued), now, ok)} :
               /\ store' = r.store
               /\ call' = [op |-> "PageCursor", lastkey |-> lastkey, ok |-> ok]
               /\ ret' = [cursor |-> r.cursor, err |-> r.err, io |-> r.io]
               /\ issued' = IF r.cursor = EmptyStr THEN issued ELSE issued \cup {r.cursor}
               /\ tokenOf' = IF r.cursor = EmptyStr THEN tokenOf
                             ELSE [c \in DOMAIN tokenOf \cup {r.cursor} |->
                                      IF c = r.cursor THEN lastkey ELSE tokenOf[c]]
        /\ UNCHANGED <<table, now>>

StartKeyCall ==
    \E cursor \in CursorIds \cup OtherCursors \cup {EmptyStr}, ok \in BOOLEAN :
        /\ \E r \in {StartKey(table, store, cursor, now, ok)} :
               /\ store' = r.store
               /\ call' = [op |-> "StartKey", cursor |-> cursor, ok |-> ok]
               /\ ret' = [key |-> r.key, err |-> r.err, io |-> r.io]
        /\ UNCHANGED <<table, now, issued, tokenOf>>

\* A caller storing a PageCursor by hand, as the package's test does.
PutEmptyCursor ==
    \E put \in {MarshalPut(table, NewPageCursor(<<"empty-cursor">>, << >>), << >>, now)} :
        /\ put.err = NoErr
        /\ store' = PutItem(store, put.input.Item)
        /\ call' = [op |-> "PutItem"]
        /\ ret' = [err |-> NoErr]
        /\ UNCHANGED <<table, now, issued, tokenOf>>

DeleteCursor ==
    \E cursor \in CursorIds \cup OtherCursors :
        \E del \in {MarshalDelete(table, NewPageCursor(cursor, << >>), << >>, now)} :
            /\ del.err = NoErr
            /\ HasItem(store, del.input.Key)
            /\ store' = DeleteItem(store, del.input.Key)
            /\ call' = [op |-> "DeleteItem"]
            /\ ret' = [err |-> NoErr]
            /\ UNCHANGED <<table, now, issued, tokenOf>>

\* DynamoDB's time-to-live: an item whose expires has passed is removed, at some time.
TTLSweep ==
    \E k \in DOMAIN store :
        /\ store[k]["expires"].Value # 0
        /\ store[k]["expires"].Value <= now
        /\ store' = [j \in DOMAIN store \ {k} |-> store[j]]
        /\ call' = [op |-> "TTLSweep"]
        /\ ret' = [err |-> NoErr]
        /\ UNCHANGED <<table, now, issued, tokenOf>>

Advance ==
    /\ now < MaxTime
    /\ now' = now + 1
    /\ call' = [op |-> "Advance"]
    /\ ret' = [err |-> NoErr]
    /\ UNCHANGED <<table, store, issued, tokenOf>>

Next ==
    \/ PageCursorCall
    \/ StartKeyCall
    \/ PutEmptyCursor
    \/ DeleteCursor
    \/ TTLSweep
    \/ Advance

Spec == Init /\ [][Next]_vars

(***************************************************************************)
(* The marshaling functions, applied once to inputs drawn from bounded     *)
(* sets: the initial state holds the call, the one step its result.        *)
(***************************************************************************)
Pending == [done |-> FALSE]

RefNames == {<<"products">>, <<"related">>}

SmallProducts == {Product(<<"P1">>, <<"electronics">>), Product(<<"P2">>, <<"books">>)}

\* The entities an order relates to: products, and an order (order O1 itself included).
RelatedEntities == SmallProducts \cup {Order(<<"O1">>, << >>)}

RefChoices == {[name |-> n, ref |-> p] : n \in RefNames, p \in RelatedEntities}

RECURSIVE SeqsUpTo(_, _)
SeqsUpTo(S, n) ==
    IF n = 0 THEN {<< >>}
    ELSE LET shorter == SeqsUpTo(S, n - 1)
         IN  shorter \cup {Append(q, x) : q \in {r \in shorter : Len(r) = n - 1}, x \in S}

SmallOrders == {Order(id, refs) : id \in {<<"O1">>, <<"O2">>}, refs \in SeqsUpTo(RefChoices, MaxRefs)}

\* The large order of the package's chunking test: products P1, P2, ... under "products".
BigOrder(k) ==
    Order(<<"O1">>, [i \in 1..k |-> [name |-> <<"products">>,
                                     ref |-> Product(<<"P">> \o Decimal(i), <<"electronics">>)]])

BigOrders == {BigOrder(k) : k \in (MaxBatchSize - 2)..MaxBigRefs}

Orders == SmallOrders \cup BigOrders

Sources == SmallProducts \cup {Order(<<"O1">>, << >>), NewPageCursor(CursorId(1), << >>)}

CallerOptions == {<< >>, <<[TimeToLive |-> 1]>>, <<[KeyDelimiter |-> <<"|">>]>>}

\* Caller options of MarshalRelationships: also an injected clock and other lifetimes.
RelOptions ==
    CallerOptions \cup {<<[Tick |-> FixedClock(3)]>>,
                        <<[Tick |-> FixedClock(3)], [TimeToLive |-> 2]>>,
                        <<[TimeToLive |-> 0 - 1]>>}

PutOptions == {<< >>, <<[SkipRefs |-> FALSE]>>, <<[TimeToLive |-> 1]>>}

\* Orders of which some related entity fails to marshal.
FailRefChoices ==
    {[name |-> n, ref |-> p] : n \in RefNames, p \in {Product(<<"P1">>, <<"books">>), ErrorEntity}}

FailingOrders ==
    {Order(<<"O1">>, refs) : refs \in SeqsUpTo(FailRefChoices, MaxFailRefs)}

EagerOrders == {EagerOrder(<<"O1">>, refs) : refs \in SeqsUpTo(RefChoices, MaxRefs)}

\* Entities of which MarshalSelf or MarshalRefs fails.
FailingEntities ==
    {ErrorEntity, ErrorRefEntity,
     BrokenOrder(<<"O1">>, <<[name |-> <<"products">>,
                              ref |-> Product(<<"P1">>, <<"electronics">>)]>>)}

PutEntities ==
    SmallOrders \cup SmallProducts \cup EagerOrders \cup {NewPageCursor(CursorId(1), << >>)}

\* The items a query returns for an entity: its records as MarshalRelationships
\* produced them at time 1, each marshalled to an item.
ItemsOf(e) ==
    LET Items(rels) == [i \in 1..Len(rels) |-> MarshalMapRel(rels[i])]
    IN  Items(MarshalRelationships(e, << >>, 1).rels)

Without(item, attr) == [a \in DOMAIN item \ {attr} |-> item[a]]

Corruptions == {"noHk", "noSk", "label1", "label2", "label4", "noData", "badData"}

\* A malformed item, as the package's error tests build them.
Corrupt(item, c) ==
    CASE c = "noHk" -> Without(item, "hk")
      [] c = "noSk" -> Without(item, "sk")
      [] c = "label1" -> [item EXCEPT !["label"] = AvS(<<"invalid">>)]
      [] c = "label2" -> [item EXCEPT !["label"] = AvS(<<"order", "/", "O1">>)]
      [] c = "label4" -> [item EXCEPT !["label"] =
                             AvS(<<"order", "/", "O1", "/", "products", "/", "extra">>)]
      [] c = "noData" -> Without(item, "data")
      [] c = "badData" -> [item EXCEPT !["data"] = AvS(<<"test">>)]

CorruptAt(items, i, c) == [items EXCEPT ![i] = Corrupt(items[i], c)]

NoDamage == [at |-> 0, how |-> "none"]

\* Which item of a result of n items is malformed, and how.
Damage(n) == {NoDamage} \cup {[at |-> i, how |-> c] : i \in 1..n, c \in Corruptions}

\* Results without the self record, and with two self records.
SelfDamage == {[at |-> 0, how |-> "noSelf"], [at |-> 0, how |-> "secondSelf"]}

DecodeOrders == {Order(<<"O1">>, refs) : refs \in SeqsUpTo(RefChoices, MaxRefs)}

OutOrders ==
    {Order(EmptyStr, << >>),
     Order(<<"O9">>, <<[name |-> <<"products">>, ref |-> Product(<<"P9">>, EmptyStr)]>>)}

SelfItems(es) == [i \in 1..Len(es) |-> ItemsOf(es[i])[1]]

\* The items handed to an unmarshal call c: the records of the entities c.of (all
\* records of the one entity for UnmarshalEntity, the self record of each
\* entity otherwise), with the damage c.damage: one malformed item, the self
\* record missing, or the self record of another order at the end.
QueryItems(c) ==
    LET Damaged(base) ==
            CASE c.damage.how = "none" -> base
              [] c.damage.how = "noSelf" -> Tail(base)
              [] c.damage.how = "secondSelf" -> Append(base, ItemsOf(Order(<<"O2">>, << >>))[1])
              [] OTHER -> CorruptAt(base, c.damage.at, c.damage.how)
    IN  Damaged(IF c.op = "UnmarshalEntity"
                THEN IF Len(c.of) = 0 THEN << >> ELSE ItemsOf(c.of[1])
                ELSE SelfItems(c.of))

LabelAlphabet == {"order", "O1", "/"}

Labels == SeqsUpTo(LabelAlphabet, MaxLabelLen)

Segments == SeqsUpTo({"order", "/"}, 2)

StartKeys == {NilItem, ItemOf([hk |-> AvS(<<"order", "#", "O1">>), sk |-> AvS(<<"order", "#", "O1">>)])}

Queries ==
    {QueryEntity(src, tf, cf, limit, key, desc) :
        src \in Sources \cup FailingEntities, tf \in BOOLEAN, cf \in BOOLEAN, limit \in {0, 20},
        key \in StartKeys, desc \in BOOLEAN}
    \cup
    {QueryList(label, sf, cf, limit, key, desc) :
        label \in {<<"product">>, <<"order", "/", "O1", "/", "products">>},
        sf \in BOOLEAN, cf \in BOOLEAN, limit \in {0, 20},
        key \in StartKeys, desc \in BOOLEAN}

MarshalCalls ==
    {[op |-> "splitLabel", label |-> l] : l \in Labels}
    \cup {[op |-> "refLabel", prefix |-> p, id |-> i, name |-> n] :
            p \in Segments, i \in Segments, n \in Segments}
    \cup {[op |-> "MarshalRelationships", in |-> e, opts |-> o] :
            e \in Orders \cup SmallProducts, o \in RelOptions}
    \cup {[op |-> "MarshalRelationships", in |-> e, opts |-> << >>] :
            e \in FailingOrders \cup FailingEntities}
    \cup {[op |-> "MarshalRefs", in |-> e] : e \in FailingOrders}
    \cup {[op |-> "MarshalPut", in |-> e, opts |-> o] :
            e \in PutEntities \cup FailingEntities, o \in PutOptions}
    \cup {[op |-> f, in |-> e, opts |-> o] :
            f \in {"MarshalGet", "MarshalDelete"},
            e \in Sources \cup FailingEntities, o \in CallerOptions}
    \cup {[op |-> "UnmarshalEntity", of |-> << >>, damage |-> NoDamage, out |-> o] :
            o \in OutOrders}
    \cup UNION {{[op |-> "UnmarshalEntity", of |-> <<e>>, damage |-> d, out |-> o] :
                    d \in Damage(1 + Len(e.Refs)) \cup SelfDamage, o \in OutOrders} :
                 e \in DecodeOrders}
    \cup UNION {{[op |-> "UnmarshalList", of |-> es, damage |-> d, out |-> o,
                   zero |-> Product(EmptyStr, EmptyStr)] :
                    d \in Damage(Len(es)), o \in {<< >>, <<Product(<<"P9">>, EmptyStr)>>}} :
                 es \in SeqsUpTo(SmallProducts, MaxRefs)}
    \cup UNION {{[op |-> "UnmarshalList", of |-> es, damage |-> d, out |-> << >>,
                   zero |-> Order(EmptyStr, << >>)] : d \in Damage(Len(es))} :
                 es \in SeqsUpTo({Order(<<"O1">>, << >>)}, MaxRefs)}
    \cup {[op |-> "UnmarshalSelf", of |-> <<Order(<<"O1">>, << >>)>>, damage |-> d,
           out |-> Order(EmptyStr, << >>)] : d \in Damage(1)}
    \cup {[op |-> "MarshalBatch", in |-> e, opts |-> o] :
            e \in Orders \cup {f \in FailingEntities : IsRefMarshaler(f)},
            o \in CallerOptions}
    \cup {[op |-> "MarshalQuery", query |-> q, opts |-> o] :
            q \in Queries, o \in {<< >>, <<[KeyDelimiter |-> <<"|">>]>>}}
    \cup {[op |-> "Filter", filter |-> f, moment |-> m, in |-> e, ttl |-> d] :
            f \in {"ExpiresAfter", "ExpiresBefore"}, m \in 1..(MaxTime + 2),
            e \in SmallProducts, d \in 1..MaxTime}
    \cup {[op |-> "RoundTrip", in |-> e] : e \in SmallOrders \cup {BigOrder(MaxBatchSize - 2)}}

MarshalTables ==
    {[NewTable(<<"test-table">>) EXCEPT !.KeyDelimiter = d] : d \in {<<"#">>, <<"|">>}}

InitMarshal ==
    /\ table \in MarshalTables
    /\ store = EmptyStore
    /\ now = 1
    /\ issued = {}
    /\ tokenOf = EmptyStore
    /\ call \in MarshalCalls
    /\ ret = Pending

Return(r) ==
    /\ ~ret.done
    /\ ret' = [done |-> TRUE, val |-> r]
    /\ UNCHANGED <<table, store, now, issued, tokenOf, call>>

SplitLabelCall ==
    /\ call.op = "splitLabel"
    /\ Return(splitLabel(newMarshalOptions(<<[LabelDelimiter |-> table.LabelDelimiter]>>, now),
                         call.label))

RefLabelCall ==
    /\ call.op = "refLabel"
    /\ LET mo == [newMarshalOptions(<<[LabelDelimiter |-> table.LabelDelimiter]>>, now)
                    EXCEPT !.SourcePrefix = call.prefix, !.SourceID = call.id]
       IN  Return(splitLabel(mo, refLabel(mo, call.name)))

MarshalRelationshipsCall ==
    /\ call.op = "MarshalRelationships"
    /\ Return(MarshalRelationships(call.in, call.opts, now))

MarshalBatchCall ==
    /\ call.op = "MarshalBatch"
    /\ Return(MarshalBatch(table, call.in, call.opts, now))

MarshalQueryCall ==
    /\ call.op = "MarshalQuery"
    /\ Return(TableMarshalQuery(table, call.query, call.opts, now))

MarshalPutCall ==
    /\ call.op = "MarshalPut"
    /\ Return(MarshalPut(table, call.in, call.opts, now))

MarshalGetCall ==
    /\ call.op = "MarshalGet"
    /\ Return(MarshalGet(table, call.in, call.opts, now))

MarshalDeleteCall ==
    /\ call.op = "MarshalDelete"
    /\ Return(MarshalDelete(table, call.in, call.opts, now))

UnmarshalEntityCall ==
    /\ call.op = "UnmarshalEntity"
    /\ Return(UnmarshalEntity(QueryItems(call), call.out, << >>, now))

UnmarshalListCall ==
    /\ call.op = "UnmarshalList"
    /\ Return(UnmarshalList(QueryItems(call), call.out, call.zero))

\* An Order's MarshalRefs on a fresh context, as MarshalRelationships sets it up.
MarshalRefsCall ==
    /\ call.op = "MarshalRefs"
    /\ \E m \in {MarshalSelf(call.in, newMarshalOptions(<< >>, now))} :
          Return(MarshalRefs(call.in,
                     [source |-> sourceKey(m.opts), opts |-> m.opts, refs |-> << >>,
                      err |-> NoErr, errArgs |-> << >>, calls |-> << >>], now).ctx)

\* UnmarshalSelf(item, &order): a pointer to an Order is an Unmarshaler.
UnmarshalSelfCall ==
    /\ call.op = "UnmarshalSelf"
    /\ Return(UnmarshalSelf(QueryItems(call)[1], call.out, TRUE))

\* A query's filter applied to the stored record of an entity written with a
\* time to live.
FilterCall ==
    /\ call.op = "Filter"
    /\ \E put \in {MarshalPut(table, call.in, <<[TimeToLive |-> call.ttl]>>, now)},
          cond \in {IF call.filter = "ExpiresAfter" THEN ExpiresAfter(call.moment)
                                                   ELSE ExpiresBefore(call.moment)} :
          Return([item |-> put.input.Item, cond |-> cond,
                  matches |-> Matches(put.input.Item, cond)])

\* MarshalRelationships, each record to an item, then UnmarshalEntity into a new Order.
RoundTrip(in, clock) ==
    LET Back(m) ==
            [marshal |-> m,
             unmarshal |-> UnmarshalEntity([i \in 1..Len(m.rels) |-> MarshalMapRel(m.rels[i])],
                                           Order(EmptyStr, << >>), << >>, clock)]
    IN  Back(MarshalRelationships(in, << >>, clock))

RoundTripCall ==
    /\ call.op = "RoundTrip"
    /\ Return(RoundTrip(call.in, now))

NextMarshal ==
    \/ SplitLabelCall
    \/ RefLabelCall
    \/ MarshalRelationshipsCall
    \/ MarshalBatchCall
    \/ MarshalQueryCall
    \/ RoundTripCall
    \/ MarshalPutCall
    \/ MarshalGetCall
    \/ MarshalDeleteCall
    \/ UnmarshalEntityCall
    \/ UnmarshalListCall
    \/ UnmarshalSelfCall
    \/ MarshalRefsCall
    \/ FilterCall

SpecMarshal == InitMarshal /\ [][NextMarshal]_vars

(***************************************************************************)
(* Writing entities to the table, as the test-data seeder does: the        *)
(* requests the table marshals are handed to the client, which may fail.   *)
(***************************************************************************)
\* The client's BatchWriteItem: every put request of the batch replaces the
\* item under its key (of several puts of one key, the last one stays).
BatchWriteItem(st, batch) ==
    LET WithPuts(reqs, puts) ==
            [k \in DOMAIN st \cup {KeyOf(reqs[i].PutRequest.Item) : i \in puts} |->
                LET WithLast(idx) ==
                        IF idx = {} THEN st[k]
                        ELSE reqs[CHOOSE i \in idx : \A j \in idx : j <= i].PutRequest.Item
                IN  WithLast({i \in puts : KeyOf(reqs[i].PutRequest.Item) = k})]
    IN  WithPuts(batch.Requests,
                 {i \in 1..Len(batch.Requests) : "PutRequest" \in DOMAIN batch.Requests[i]})

\* The loop going on to the next batch after a failed call.
RECURSIVE WriteBatchesKeepGoing(_, _, _, _, _)
WriteBatchesKeepGoing(st, batches, i, failAt, io) ==
    IF i > Len(batches)
    THEN [store |-> st, err |-> IF failAt = 0 THEN NoErr ELSE "failed to batch write",
          io |-> io]
    ELSE WriteBatchesKeepGoing(IF i = failAt THEN st ELSE BatchWriteItem(st, batches[i]),
                               batches, i + 1, failAt, Append(io, batches[i]))

\* The seeder's loop over the batches; the client fails the call failAt (0: none).
\* io lists the batches handed to the client.
RECURSIVE WriteBatches(_, _, _, _, _)
WriteBatches(st, batches, i, failAt, io) ==
    IF i > Len(batches) THEN [store |-> st, err |-> NoErr, io |-> io]
    ELSE IF i = failAt
         THEN [store |-> st, err |-> "failed to batch write", io |-> Append(io, batches[i])]
         ELSE WriteBatches(BatchWriteItem(st, batches[i]), batches, i + 1, failAt,
                           Append(io, batches[i]))

SeedEntity(t, st, entity, clock, putOk) ==
    LET With(put) ==
            IF put.err # NoErr
            THEN [store |-> st, err |-> "failed to marshal entity", io |-> << >>]
            ELSE IF ~putOk
                 THEN [store |-> st, err |-> "failed to put entity", io |-> <<put.input>>]
                 ELSE [store |-> PutItem(st, put.input.Item), err |-> NoErr,
                       io |-> <<put.input>>]
    IN  With(MarshalPut(t, entity, << >>, clock))

SeedEntityWithRefs(t, st, entity, clock, failAt) ==
    LET With(mb) ==
            IF mb.err # NoErr
            THEN [store |-> st, err |-> "failed to marshal entity with refs", io |-> << >>]
            ELSE WriteBatches(st, mb.batches, 1, failAt, << >>)
    IN  With(MarshalBatch(t, entity, << >>, clock))

SeedProduct(id) == [name |-> <<"products">>, ref |-> Product(id, <<"electronics">>)]

\* Order O1 with products P1 and P2 and with P1 alone, the large order of the
\* chunking test, and an order of which a related entity fails to marshal.
SeedOrders ==
    {Order(<<"O1">>, <<SeedProduct(<<"P1">>), SeedProduct(<<"P2">>)>>),
     Order(<<"O1">>, <<SeedProduct(<<"P1">>)>>),
     BigOrder(MaxBigRefs),
     Order(<<"O1">>, <<[name |-> <<"products">>, ref |-> ErrorEntity]>>)}

SeedSources == {Order(<<"O1">>, << >>), ErrorEntity}

InitStore ==
    /\ table = NewTable(<<"test-table">>)
    /\ store = EmptyStore
    /\ now = 1
    /\ issued = {}
    /\ tokenOf = EmptyStore
    /\ call = [op |-> "init"]
    /\ ret = [err |-> NoErr, io |-> << >>]

SeedEntityCall ==
    \E e \in SeedSources, ok \in BOOLEAN :
        /\ \E r \in {SeedEntity(table, store, e, now, ok)} :
               /\ store' = r.store
               /\ call' = [op |-> "SeedEntity", in |-> e, failAt |-> IF ok THEN 0 ELSE 1]
               /\ ret' = [err |-> r.err, io |-> r.io]
        /\ UNCHANGED <<table, now, issued, tokenOf>>

SeedEntityWithRefsCall ==
    \E e \in SeedOrders, failAt \in 0..MaxSeedBatches :
        /\ \E r \in {SeedEntityWithRefs(table, store, e, now, failAt)} :
               /\ failAt <= Len(r.io)
               /\ store' = r.store
               /\ call' = [op |-> "SeedEntityWithRefs", in |-> e, failAt |-> failAt]
               /\ ret' = [err |-> r.err, io |-> r.io]
        /\ UNCHANGED <<table, now, issued, tokenOf>>

AdvanceStore ==
    /\ now < MaxSeedTime
    /\ now' = now + 1
    /\ call' = [op |-> "Advance"]
    /\ ret' = [err |-> NoErr, io |-> << >>]
    /\ UNCHANGED <<table, store, issued, tokenOf>>

NextStore ==
    \/ SeedEntityCall
    \/ SeedEntityWithRefsCall
    \/ AdvanceStore

SpecStore == InitStore /\ [][NextStore]_vars

(***************************************************************************)
(* Properties.                                                             *)
(***************************************************************************)
Returned(op) == call.op = op /\ ret.done

RECURSIVE CountSym(_, _)
CountSym(s, sym) ==
    IF s = << >> THEN 0
    ELSE (IF Head(s) = sym THEN 1 ELSE 0) + CountSym(Tail(s), sym)

RECURSIVE Flatten(_)
Flatten(batches) ==
    IF batches = << >> THEN << >>
    ELSE Head(batches).Requests \o Flatten(Tail(batches))

CeilDiv(n, d) == (n + d - 1) \div d

\* C1: decoding the records MarshalRelationships produced for an entity calls the
\* entity's UnmarshalRef once per reference record, in order, with the relationship
\* name and the id of that record's target entity (order O1 with products P1 and P2
\* decodes to product references P1 and P2).
C1_RoundTripRefsGetTargetId ==
    Returned("RoundTrip") =>
        LET refs == call.in.Refs
            calls == ret.val.unmarshal.calls
        IN  /\ ret.val.marshal.err = NoErr
            /\ ret.val.unmarshal.err = NoErr
            /\ Len(calls) = Len(refs)
            /\ \A i \in 1..Len(refs) :
                  calls[i] = [name |-> refs[i].name, id |-> refs[i].ref.ID]

\* C2: for a source entity whose MarshalSelf succeeds, the query Table.MarshalQuery
\* builds for a QueryEntity has the partition-key condition
\* hk == SourcePrefix + KeyDelimiter + SourceID of that source entity.
C2_QueryEntityKeyIsSourceKey ==
    (Returned("MarshalQuery") /\ call.query.kind = "QueryEntity") =>
        LET m == MarshalSelf(call.query.Source,
                             newMarshalOptions(<<[KeyDelimiter |-> table.KeyDelimiter]>>
                                                  \o call.opts, now))
        IN  m.err = NoErr =>
              /\ ret.val.err = NoErr
              /\ ret.val.input.KeyCondition.name = "hk"
              /\ ret.val.input.KeyCondition.equals
                    = m.opts.SourcePrefix \o m.opts.KeyDelimiter \o m.opts.SourceID

\* C3: for an entity declaring k relationships (identifiers free of the delimiters),
\* MarshalRelationships returns 1 + k records: the self record first, then one
\* reference record per related entity in the order added, each with source = the
\* parent's source key, target = the related entity's prefix + KeyDelimiter + id,
\* and a label that splits into (parent prefix, parent id, relationship name).
C3_MarshalYieldsSelfThenRefs ==
    (/\ Returned("MarshalRelationships")
     /\ call.in.kind = "order"
     /\ \A i \in 1..Len(call.in.Refs) : call.in.Refs[i].ref.kind # "error") =>
        LET refs == call.in.Refs
            rels == ret.val.rels
            mo == newMarshalOptions(call.opts, now)
            parent == <<"order">> \o mo.KeyDelimiter \o call.in.ID
        IN  /\ ret.val.err = NoErr
            /\ Len(rels) = 1 + Len(refs)
            /\ rels[1].Source = parent
            /\ rels[1].Target = parent
            /\ rels[1].Label = <<"order">>
            /\ \A i \in 1..Len(refs) :
                  /\ rels[i + 1].Source = parent
                  /\ rels[i + 1].Target
                        = <<refs[i].ref.kind>> \o mo.KeyDelimiter \o refs[i].ref.ID
                  /\ Split(rels[i + 1].Label, Head(mo.LabelDelimiter))
                        = <<<<"order">>, call.in.ID, refs[i].name>>

C3_Witness ==
    /\ Returned("MarshalRelationships")
    /\ call.in.kind = "order"
    /\ Len(call.in.Refs) = 2
    /\ call.in.Refs[1].name # call.in.Refs[2].name
    /\ \A i \in 1..2 : call.in.Refs[i].ref.kind = "product"
    /\ call.in.Refs[1].ref.ID # call.in.Refs[2].ref.ID
    /\ Len(ret.val.rels) = 3

\* C4: for all non-empty prefix p, id and name n that do not contain the label
\* delimiter, splitLabel applied to refLabel(p, id, n) returns (p, id, n), no error.
C4_LabelRoundTrip ==
    (/\ Returned("refLabel")
     /\ \A x \in {call.prefix, call.id, call.name} :
           x # EmptyStr /\ ~Contains(x, Head(table.LabelDelimiter)))
    => ret.val = [prefix |-> call.prefix, id |-> call.id, name |-> call.name,
                  err |-> NoErr]

C4_Witness ==
    /\ Returned("refLabel")
    /\ call.prefix = <<"order", "order">>
    /\ call.id = <<"order">>
    /\ call.name = <<"order", "order">>
    /\ ret.val.name = call.name

\* C5: splitLabel succeeds exactly when the label has 1 or 3 segments between label
\* delimiters: 1 segment gives (segment, "", ""), 3 segments give (prefix, id, name),
\* any other number gives the invalid-format error and empty strings.
C5_SplitLabelSegments ==
    Returned("splitLabel") =>
        LET d == table.LabelDelimiter
            n == CountSym(call.label, Head(d)) + 1
            r == ret.val
        IN  /\ n = 1 => r = [prefix |-> call.label, id |-> EmptyStr, name |-> EmptyStr,
                             err |-> NoErr]
            /\ n = 3 => /\ r.err = NoErr
                        /\ r.prefix \o d \o r.id \o d \o r.name = call.label
            /\ n \notin {1, 3} => /\ r.err # NoErr
                                  /\ r.prefix = EmptyStr
                                  /\ r.id = EmptyStr
                                  /\ r.name = EmptyStr

C5_Witness ==
    /\ Returned("splitLabel")
    /\ CountSym(call.label, Head(table.LabelDelimiter)) = 3
    /\ Len(call.label) = MaxLabelLen
    /\ ret.val.err # NoErr

\* C6: for an entity whose marshal yields N records, Table.MarshalBatch returns
\* ceil(N/25) batches, each of 1 to 25 put requests, and the batches' requests
\* concatenated in order are the N records in marshal order, self record first.
C6_BatchChunking ==
    (Returned("MarshalBatch") /\ call.in.kind = "order") =>
        LET m == MarshalRelationships(call.in,
                     <<[KeyDelimiter |-> table.KeyDelimiter,
                        LabelDelimiter |-> table.LabelDelimiter]>> \o call.opts, now)
            N == Len(m.rels)
            batches == ret.val.batches
        IN  /\ m.err = NoErr
            /\ N = 1 + Len(call.in.Refs)
            /\ ret.val.err = NoErr
            /\ Len(batches) = CeilDiv(N, MaxBatchSize)
            /\ \A b \in 1..Len(batches) :
                  /\ Len(batches[b].Requests) >= 1
                  /\ Len(batches[b].Requests) <= MaxBatchSize
            /\ Flatten(batches) = [i \in 1..N |-> PutRequest(m.rels[i])]
            /\ batches[1].Requests[1].PutRequest.Item["hk"]
                  = batches[1].Requests[1].PutRequest.Item["sk"]

C6_Witness ==
    /\ Returned("MarshalBatch")
    /\ Len(call.in.Refs) = 2 * MaxBatchSize
    /\ Len(ret.val.batches) = 3
    /\ Len(ret.val.batches[3].Requests) = 1

\* C7: once PageCursor(token) has returned cursor c for a non-empty token, every
\* later StartKey(c) returns a key equal to that token for as long as the cursor
\* record is in the store, whatever other calls are interleaved.
C7_CursorRoundTrip ==
    (/\ call.op = "StartKey"
     /\ call.ok
     /\ call.cursor \in issued
     /\ PageKey(table, call.cursor) \in DOMAIN store)
    => /\ ret.err = NoErr
       /\ ret.key = tokenOf[call.cursor]

\* C8: the cursor record PageCursor writes has expires = createdAt +
\* Table.PaginationTTL, whatever duration the table is configured with.
C8_ExpiryFollowsPaginationTTL ==
    \A c \in issued :
        PageKey(table, c) \in DOMAIN store =>
            LET item == store[PageKey(table, c)]
            IN  item["expires"].Value
                   = ParseDecimal(item["created_at"].Value) + table.PaginationTTL

\* C9: StartKey for a non-empty cursor with no record in the store (never issued,
\* deleted or swept), or whose record holds an empty key payload, returns a nil key
\* and no error when the store answers the lookup.
C9_MissingCursorIsNil ==
    (/\ call.op = "StartKey"
     /\ call.ok
     /\ call.cursor # EmptyStr
     /\ \/ PageKey(table, call.cursor) \notin DOMAIN store
        \/ store[PageKey(table, call.cursor)]["data"].Value["Key"].Value = << >>)
    => /\ ret.key = NilItem
       /\ ret.err = NoErr

C9_Witness ==
    /\ call.op = "StartKey"
    /\ call.ok
    /\ call.cursor \in issued
    /\ PageKey(table, call.cursor) \notin DOMAIN store
    /\ PageKey(table, <<"empty-cursor">>) \in DOMAIN store
    /\ ret.key = NilItem

\* C10: PageCursor with a nil or empty last key returns the empty cursor without a
\* store write, StartKey with the empty cursor returns a nil key without a lookup;
\* either way the store is unchanged and no error is returned.
C10_EmptyInputsTouchNothing ==
    [][/\ (call'.op = "PageCursor" /\ IsEmptyKey(call'.lastkey)) =>
            /\ ret'.cursor = EmptyStr
            /\ ret'.err = NoErr
            /\ ret'.io = << >>
            /\ store' = store
       /\ (call'.op = "StartKey" /\ call'.cursor = EmptyStr) =>
            /\ ret'.key = NilItem
            /\ ret'.err = NoErr
            /\ ret'.io = << >>
            /\ store' = store]_vars

C10_Witness ==
    /\ call.op = "PageCursor"
    /\ call.lastkey = ItemOf(<< >>)
    /\ ~call.ok
    /\ DOMAIN store # {}
    /\ ret.cursor = EmptyStr
    /\ ret.err = NoErr

\* C11: UnmarshalEntity returns ErrItemNotFound exactly when the item list is empty;
\* for the empty list it returns no relationships, calls no hook of the output
\* entity and leaves the output entity as it was.
C11_NotFoundIffNoItems ==
    Returned("UnmarshalEntity") =>
        /\ (ret.val.err = ErrItemNotFound) <=> (Len(QueryItems(call)) = 0)
        /\ Len(QueryItems(call)) = 0 =>
              /\ ret.val.rels = << >>
              /\ ret.val.calls = << >>
              /\ ret.val.out = call.out

C11_Witness ==
    /\ Returned("UnmarshalEntity")
    /\ Len(QueryItems(call)) = 0
    /\ call.out.ID = <<"O9">>
    /\ ret.val.err = ErrItemNotFound
    /\ ret.val.out = call.out

\* C12: UnmarshalEntity returns an error and no relationships when some item lacks
\* the hk or the sk attribute, or when the label of some reference record (hk # sk)
\* has 2 segments or 4 and more between label delimiters.
C12_MalformedItemsFail ==
    Returned("UnmarshalEntity") =>
        LET items == QueryItems(call)
            Malformed(item) ==
                \/ "hk" \notin DOMAIN item
                \/ "sk" \notin DOMAIN item
                \/ /\ item["hk"].Value # item["sk"].Value
                   /\ CountSym(item["label"].Value, "/") + 1 \notin {1, 3}
        IN  (\E i \in 1..Len(items) : Malformed(items[i])) =>
                /\ ret.val.err # NoErr
                /\ ret.val.rels = << >>

C12_Witness ==
    /\ Returned("UnmarshalEntity")
    /\ Len(call.of) = 1
    /\ Len(call.of[1].Refs) = 2
    /\ call.damage \in {[at |-> 3, how |-> "label4"], [at |-> 3, how |-> "noSk"]}
    /\ ret.val.err \in {"invalid label format", "failed to unmarshal table key"}
    /\ ret.val.rels = << >>

\* C13: whenever UnmarshalEntity or UnmarshalList returns an error, the caller's
\* output value is exactly as it was before the call: the entity has absorbed no
\* self payload and no relationship, and the output slice has not grown.
C13_DecodingAllOrNothing ==
    /\ (Returned("UnmarshalEntity") /\ ret.val.err # NoErr) => ret.val.out = call.out
    /\ (Returned("UnmarshalList") /\ ret.val.err # NoErr) => ret.val.out = call.out

\* C14: once one AddOne on a RelationshipContext has failed, every later AddOne or
\* AddMany on that context calls no MarshalSelf, adds no record and keeps the
\* recorded error: the context holds the records added before the failure, the
\* error of the first failing reference and the MarshalSelf calls up to that
\* reference; MarshalRelationships returns that error and no records at all.
C14_FailFastAccumulation ==
    (/\ ret.done
     /\ call.op \in {"MarshalRefs", "MarshalRelationships"}
     /\ call.in.kind = "order"
     /\ \E i \in 1..Len(call.in.Refs) : call.in.Refs[i].ref.kind = "error") =>
        LET refs == call.in.Refs
            first == CHOOSE i \in 1..Len(refs) :
                        /\ refs[i].ref.kind = "error"
                        /\ \A j \in 1..(i - 1) : refs[j].ref.kind # "error"
            marshalled == [j \in 1..first |-> Hook("MarshalSelf", refs[j].ref)]
        IN  /\ ret.val.err = "failed to marshal reference"
            /\ ret.val.errArgs = <<refs[first].name>>
            /\ call.op = "MarshalRefs" =>
                  /\ ret.val.calls = marshalled
                  /\ Len(ret.val.refs) = first - 1
                  /\ \A j \in 1..(first - 1) :
                        ret.val.refs[j].Target = <<"product", "#">> \o refs[j].ref.ID
            /\ call.op = "MarshalRelationships" =>
                  /\ ret.val.rels = << >>
                  /\ ret.val.hooks = <<Hook("MarshalSelf", call.in),
                                       Hook("MarshalRefs", call.in)>> \o marshalled

C14_Witness ==
    /\ ret.done
    /\ call.op = "MarshalRefs"
    /\ Len(call.in.Refs) = 3
    /\ call.in.Refs[1].ref.kind = "product"
    /\ call.in.Refs[2] = [name |-> <<"products">>, ref |-> ErrorEntity]
    /\ call.in.Refs[3].name = <<"related">>
    /\ Len(ret.val.refs) = 1
    /\ Len(ret.val.calls) = 2
    /\ ret.val.errArgs = <<<<"products">>>>

\* C15: Table.MarshalQuery sets IndexName to the table's RefIndexName for every
\* QueryList and leaves it unset for every QueryEntity (of a source whose
\* MarshalSelf succeeds), whatever filters, limit, start key or sort order the
\* query carries.
C15_IndexFollowsPattern ==
    (/\ Returned("MarshalQuery")
     /\ call.query.kind = "QueryEntity" => call.query.Source.kind \notin {"error", "broken"}) =>
        /\ ret.val.err = NoErr
        /\ call.query.kind = "QueryList" => ret.val.input.IndexName = table.RefIndexName
        /\ call.query.kind = "QueryEntity" => ret.val.input.IndexName = EmptyStr

C15_Witness ==
    /\ Returned("MarshalQuery")
    /\ call.query.kind = "QueryList"
    /\ ~call.query.RefSortFilter
    /\ call.query.ConditionFilter
    /\ call.query.Limit = 20
    /\ ~call.query.StartKey.isNil
    /\ call.query.SortDescending
    /\ ret.val.input.IndexName = <<"ref-index">>
    /\ ret.val.input.ExclusiveStartKey = call.query.StartKey

\* C16: for any entity whose MarshalSelf succeeds and leaves SkipRefs alone, a RefMarshaler with
\* relationships included, and any caller options, SkipRefs = false included,
\* Table.MarshalPut returns a put request holding exactly the entity's self record
\* and invokes no MarshalRefs; when more than one record results (the entity's
\* MarshalSelf cleared SkipRefs), it returns an error and no request.
C16_PutWritesSelfOnly ==
    Returned("MarshalPut") =>
        LET e == call.in
            key == CASE e.kind = "page" -> <<"page">> \o table.KeyDelimiter \o e.Cursor
                     [] e.kind = "eager" -> <<"bundle">> \o table.KeyDelimiter \o e.ID
                     [] e.kind = "errorRef" -> <<"error">> \o table.KeyDelimiter \o <<"E1">>
                     [] OTHER -> <<e.kind>> \o table.KeyDelimiter \o e.ID
        IN  /\ e.kind \notin {"eager", "error", "broken"} =>
                  /\ ret.val.err = NoErr
                  /\ ~ret.val.input.isNil
                  /\ ret.val.input.Item["hk"] = AvS(key)
                  /\ ret.val.input.Item["sk"] = AvS(key)
                  /\ ret.val.input.Item["data"] = MarshalData(e)
                  /\ ret.val.hooks = <<Hook("MarshalSelf", e)>>
            /\ (e.kind = "eager" /\ Len(e.Refs) >= 1) =>
                  /\ ret.val.err = "expected exactly 1 relationship for put"
                  /\ ret.val.input = NilRequest

C16_Witness ==
    /\ Returned("MarshalPut")
    /\ call.in.kind = "order"
    /\ Len(call.in.Refs) = 2
    /\ call.opts = <<[SkipRefs |-> FALSE]>>
    /\ ret.val.err = NoErr
    /\ ret.val.input.Item["hk"] = ret.val.input.Item["sk"]
    /\ Len(ret.val.hooks) = 1

\* C17: in every list MarshalRelationships returns, exactly one record has
\* source = target, namely the first (self) record; no reference record has.
C17_OnlySelfHasSourceEqTarget ==
    (Returned("MarshalRelationships") /\ ret.val.err = NoErr) =>
        LET rels == ret.val.rels
        IN  /\ Len(rels) >= 1
            /\ rels[1].Source = rels[1].Target
            /\ \A i \in 2..Len(rels) : rels[i].Source # rels[i].Target

\* C18: when UnmarshalEntity processes the self record of an output entity that
\* implements Unmarshaler, the entity's UnmarshalSelf hook runs on that record, as
\* it does when UnmarshalSelf is called on the entity directly: the entity's
\* Created and Updated become the record's createdAt and updatedAt.
C18_SelfHookInvoked ==
    /\ (Returned("UnmarshalSelf") /\ ret.val.err = NoErr) =>
          /\ ret.val.out.Created = ret.val.rel.CreatedAt
          /\ ret.val.out.Updated = ret.val.rel.UpdatedAt
    /\ (Returned("UnmarshalEntity") /\ ret.val.err = NoErr) =>
          /\ ret.val.out.Created = ret.val.rels[1].CreatedAt
          /\ ret.val.out.Updated = ret.val.rels[1].UpdatedAt
          /\ ret.val.out.Created
                = UnmarshalSelf(QueryItems(call)[1], call.out, TRUE).out.Created

\* C19: when the caller overrides only the clock (Tick) and neither the caller nor
\* the entity sets Created or Updated, the createdAt and updatedAt of the records
\* of MarshalRelationships are the injected clock's value, not the system clock's.
C19_TimestampsFromInjectedClock ==
    (/\ Returned("MarshalRelationships")
     /\ call.in.kind = "product"
     /\ Len(call.opts) = 1
     /\ DOMAIN call.opts[1] = {"Tick"}) =>
        /\ ret.val.err = NoErr
        /\ \A i \in 1..Len(ret.val.rels) :
              /\ ret.val.rels[i].CreatedAt = call.opts[1].Tick.at
              /\ ret.val.rels[i].UpdatedAt = call.opts[1].Tick.at

C21_CreatedAtSetOnce ==
    [][\A k \in DOMAIN store \cap DOMAIN store' :
          store'[k]["created_at"] = store[k]["created_at"]]_vars

\* C22: a failing MarshalSelf aborts the operation: MarshalRelationships,
\* MarshalPut, MarshalBatch, MarshalGet, MarshalDelete and MarshalQuery of a
\* QueryEntity return an error and no record or request, and MarshalRefs is
\* not invoked; a failing MarshalRefs yields an error and no record either.
C22_DescribeFailureAborts ==
    LET SelfFails(e) == e.kind \in {"error", "broken"}
        RefsFail(e) == e.kind = "errorRef"
        NoRefsHook(hooks) == \A i \in 1..Len(hooks) : hooks[i].hook # "MarshalRefs"
    IN  /\ Returned("MarshalRelationships") /\ SelfFails(call.in)
              => /\ ret.val.err # NoErr
                 /\ ret.val.rels = << >>
                 /\ NoRefsHook(ret.val.hooks)
        /\ Returned("MarshalPut") /\ SelfFails(call.in)
              => /\ ret.val.err # NoErr
                 /\ ret.val.input = NilRequest
                 /\ NoRefsHook(ret.val.hooks)
        /\ Returned("MarshalBatch") /\ SelfFails(call.in)
              => /\ ret.val.err # NoErr
                 /\ ret.val.batches = << >>
                 /\ NoRefsHook(ret.val.hooks)
        /\ (Returned("MarshalGet") \/ Returned("MarshalDelete")) /\ SelfFails(call.in)
              => /\ ret.val.err # NoErr
                 /\ ret.val.input = NilRequest
        /\ Returned("MarshalQuery") /\ call.query.kind = "QueryEntity"
              => (SelfFails(call.query.Source)
                    => ret.val.err # NoErr /\ ret.val.input = NilRequest)
        /\ Returned("MarshalRelationships") /\ RefsFail(call.in)
              => ret.val.err # NoErr /\ ret.val.rels = << >>
        /\ Returned("MarshalBatch") /\ RefsFail(call.in)
              => ret.val.err # NoErr /\ ret.val.batches = << >>

\* C22 witness: MarshalBatch of an order with a product whose MarshalSelf fails
\* has returned an error.
C22_Witness ==
    /\ Returned("MarshalBatch")
    /\ call.in.kind = "broken"
    /\ Len(call.in.Refs) = 1
    /\ ret.val.err = "failed to marshal relationships"

\* C23: ExpiresAfter(m) matches exactly the records whose expires is later than
\* m, and ExpiresBefore(m) exactly those whose expires is earlier than m.
C23_ExpiresFiltersDirection ==
    Returned("Filter") =>
        /\ call.filter = "ExpiresAfter"
              => (ret.val.matches <=> ret.val.item["expires"].Value > call.moment)
        /\ call.filter = "ExpiresBefore"
              => (ret.val.matches <=> ret.val.item["expires"].Value < call.moment)

\* C24: UnmarshalEntity rejects a reference record (hk # sk) whose label is a
\* single segment: it returns an error and no relationships, and makes no
\* UnmarshalRef call with an empty relationship name.
C24_SingleSegmentRefLabelRejected ==
    Returned("UnmarshalEntity") =>
        LET items == QueryItems(call)
            SingleSegmentRef(item) ==
                /\ {"hk", "sk", "label"} \subseteq DOMAIN item
                /\ item["hk"].Value # item["sk"].Value
                /\ CountSym(item["label"].Value, "/") = 0
        IN  (\E i \in 1..Len(items) : SingleSegmentRef(items[i])) =>
                /\ ret.val.err # NoErr
                /\ ret.val.rels = << >>
                /\ \A j \in 1..Len(ret.val.calls) : ret.val.calls[j].name # EmptyStr

\* C25: the seeder hands the batches of MarshalBatch to the client one at a time,
\* in order.  When the write of batch i fails, no later batch is sent, the items
\* of the batches before i are in the table (nothing is rolled back), nothing
\* else in the table has changed and the error is returned.
C25_BatchesInOrderNoRollback ==
    [][call'.op = "SeedEntityWithRefs" =>
          LET Sent(batches, n, written) ==
                  /\ ret'.io = SubSeq(batches, 1, n)
                  /\ \A j \in 1..written : \A q \in 1..Len(batches[j].Requests) :
                        LET item == batches[j].Requests[q].PutRequest.Item
                        IN  KeyOf(item) \in DOMAIN store' /\ store'[KeyOf(item)] = item
                  /\ \A k \in DOMAIN store :
                        /\ k \in DOMAIN store'
                        /\ store'[k] # store[k] =>
                              \E j \in 1..written : \E q \in 1..Len(batches[j].Requests) :
                                  KeyOf(batches[j].Requests[q].PutRequest.Item) = k
                  /\ \A k \in DOMAIN store' \ DOMAIN store :
                        \E j \in 1..written : \E q \in 1..Len(batches[j].Requests) :
                            KeyOf(batches[j].Requests[q].PutRequest.Item) = k
              Checked(mb, failAt) ==
                  IF failAt = 0
                  THEN /\ Sent(mb.batches, Len(mb.batches), Len(mb.batches))
                       /\ mb.err = NoErr => ret'.err = NoErr
                  ELSE /\ Sent(mb.batches, failAt, failAt - 1)
                       /\ ret'.err = "failed to batch write"
          IN  Checked(MarshalBatch(table, call'.in, << >>, now), call'.failAt)]_vars

\* C25 witness: of the three batches of the large order the second one failed:
\* two batches were sent, the first is in the table, the third is not.
C25_Witness ==
    /\ call.op = "SeedEntityWithRefs"
    /\ call.failAt = 2
    /\ ret.err = "failed to batch write"
    /\ Len(ret.io) = 2
    /\ Len(ret.io[1].Requests) = MaxBatchSize
    /\ \A q \in 1..MaxBatchSize :
          KeyOf(ret.io[1].Requests[q].PutRequest.Item) \in DOMAIN store
    /\ \A q \in 1..Len(ret.io[2].Requests) :
          KeyOf(ret.io[2].Requests[q].PutRequest.Item) \notin DOMAIN store
    /\ Cardinality(DOMAIN store) = MaxBatchSize

\* C26: UnmarshalEntity keeps the order of its input: on success it returns one
\* Relationship per item, the i-th for the i-th item, and the UnmarshalRef calls
\* are those of the reference records (hk # sk) in the order of the items.
C26_DecodingKeepsInputOrder ==
    (Returned("UnmarshalEntity") /\ ret.val.err = NoErr) =>
        LET items == QueryItems(call)
            refItems == SelectSeq(items, LAMBDA item : item["hk"].Value # item["sk"].Value)
            NameOf(label) == IF Len(Split(label, "/")) = 3 THEN Split(label, "/")[3]
                                                             ELSE EmptyStr
        IN  /\ Len(ret.val.rels) = Len(items)
            /\ \A i \in 1..Len(items) :
                  /\ ret.val.rels[i].Source = items[i]["hk"].Value
                  /\ ret.val.rels[i].Target = items[i]["sk"].Value
                  /\ ret.val.rels[i].Label = items[i]["label"].Value
            /\ Len(ret.val.calls) = Len(refItems)
            /\ \A j \in 1..Len(refItems) :
                  ret.val.calls[j].name = NameOf(refItems[j]["label"].Value)

\* C26 witness: the records of an order with a "products" and then a "related"
\* reference were decoded.
C26_Witness ==
    /\ Returned("UnmarshalEntity")
    /\ ret.val.err = NoErr
    /\ call.damage = NoDamage
    /\ Len(call.of) = 1
    /\ Len(call.of[1].Refs) = 2
    /\ call.of[1].Refs[1].name = <<"products">>
    /\ call.of[1].Refs[2].name = <<"related">>
    /\ call.of[1].Refs[1].ref # call.of[1].Refs[2].ref
    /\ Len(ret.val.rels) = 3
    /\ ret.val.calls[1].name = <<"products">>
    /\ ret.val.calls[2].name = <<"related">>

\* C27: AddOne runs the related entity's MarshalSelf on a copy of the context's
\* options: after any sequence of AddOne and AddMany calls the context holds the
\* options and the source key it was created with.
C27_ContextOptionsUnchanged ==
    Returned("MarshalRefs") =>
        \E m \in {MarshalSelf(call.in, newMarshalOptions(<< >>, now))} :
            /\ ret.val.opts = m.opts
            /\ ret.val.source = sourceKey(m.opts)

\* C27 witness: three related products, each setting its own identity and sort
\* key in the options it is handed, were added to the context of order O1.
C27_Witness ==
    /\ Returned("MarshalRefs")
    /\ Len(call.in.Refs) = 3
    /\ \A i \in 1..3 : call.in.Refs[i].ref.kind = "product"
    /\ Len(ret.val.refs) = 3
    /\ Len(ret.val.calls) = 3
    /\ ret.val.opts.SourceID = <<"O1">>
    /\ ret.val.opts.RefSortKey # <<"books">>
    /\ ret.val.source = <<"order", "#", "O1">>

\* C28: UnmarshalEntity does not require a self record.  A non-empty item list
\* with no item of hk = sk never yields ErrItemNotFound and leaves the payload
\* fields of the output entity undecoded; when the items are the well-formed
\* reference records alone the call succeeds, returns one relationship per item
\* and calls UnmarshalRef for each.  With two self records each is decoded in
\* turn, the output entity holding the payload of the last one.
C28_SelfRecordNotRequired ==
    Returned("UnmarshalEntity") =>
        LET items == QueryItems(call)
            IsSelf(item) ==
                {"hk", "sk"} \subseteq DOMAIN item /\ item["hk"].Value = item["sk"].Value
        IN  /\ (Len(items) > 0 /\ \A i \in 1..Len(items) : ~IsSelf(items[i])) =>
                  /\ ret.val.err # ErrItemNotFound
                  /\ ret.val.out.ID = call.out.ID
                  /\ ret.val.out.PurchasedBy = call.out.PurchasedBy
            /\ (/\ call.damage.how = "noSelf"
                /\ Len(items) > 0
                /\ \A i \in 1..Len(items) : ~IsSelf(items[i])) =>
                  /\ ret.val.err = NoErr
                  /\ Len(ret.val.rels) = Len(items)
                  /\ Len(ret.val.calls) = Len(items)
            /\ call.damage.how = "secondSelf" =>
                  /\ ret.val.err = NoErr
                  /\ Len(ret.val.rels) = Len(items)
                  /\ AvS(ret.val.out.ID) = items[Len(items)]["data"].Value["id"]

\* C28 witness: the two reference records of order O1, without its self record,
\* were decoded into an order O9.
C28_Witness ==
    /\ Returned("UnmarshalEntity")
    /\ call.damage.how = "noSelf"
    /\ Len(call.of[1].Refs) = 2
    /\ call.out.ID = <<"O9">>
    /\ ret.val.err = NoErr
    /\ Len(ret.val.rels) = 2
    /\ Len(ret.val.calls) = 2
    /\ ret.val.out.ID = <<"O9">>

\* C29: every request of every batch MarshalBatch builds is a put, so writing
\* an entity's batches never removes an item: after order O1 was written with
\* products P1 and P2 and then again with P1 alone, the table still holds the
\* reference record to P2.
C29_BatchesOnlyPut ==
    [][call'.op = "SeedEntityWithRefs" =>
          /\ \A i \in 1..Len(ret'.io) : \A q \in 1..Len(ret'.io[i].Requests) :
                DOMAIN ret'.io[i].Requests[q] = {"PutRequest"}
          /\ \A k \in DOMAIN store : k \in DOMAIN store']_vars

\* C29 witness: order O1 has just been written with P1 alone, at a later time
\* than the write that stored its reference to P2, which is still in the table.
C29_Witness ==
    /\ call.op = "SeedEntityWithRefs"
    /\ call.in = Order(<<"O1">>, <<SeedProduct(<<"P1">>)>>)
    /\ ret.err = NoErr
    /\ Len(ret.io) = 1
    /\ Len(ret.io[1].Requests) = 2
    /\ <<<<"order", "#", "O1">>, <<"product", "#", "P2">>>> \in DOMAIN store
    /\ store[<<<<"order", "#", "O1">>, <<"product", "#", "P2">>>>]["updated_at"]
          # store[<<<<"order", "#", "O1">>, <<"product", "#", "P1">>>>]["updated_at"]
    /\ <<<<"order", "#", "O1">>, <<"product", "#", "P3">>>> \notin DOMAIN store

\* C30: StartKey reads neither expires nor the clock: for as long as the record
\* of an issued cursor is in the store, StartKey resolves the cursor to its
\* token, also when the record's expiry time has passed.
C30_ExpiredCursorStillResolves ==
    (/\ call.op = "StartKey"
     /\ call.ok
     /\ call.cursor \in issued
     /\ PageKey(table, call.cursor) \in DOMAIN store
     /\ store[PageKey(table, call.cursor)]["expires"].Value <= now)
    => /\ ret.err = NoErr
       /\ ret.key = tokenOf[call.cursor]

====
